---- MODULE Spec2Model ----
(***************************************************************************)
(* The tree-to-graph compiler of chinook (Compiler.ts):                    *)
(* compileGlobalTreeDefinition / compileTreeDefinition, as a state machine *)
(* whose steps are the calls and returns of compileTreeDefinition and of   *)
(* its inner traverseStreamExpr.                                           *)
(*                                                                         *)
(* A node of the program tree is a record; its identity (the object        *)
(* identity the mark sets of the compiler rely on) is its path from the    *)
(* main definition: the sequence of child positions leading to it.         *)
(***************************************************************************)
EXTENDS Integers, Sequences, FiniteSets, TLC

VARIABLES
  definition,   \* the main definition handed to compileGlobalTreeDefinition
  stack,        \* activations of compileTreeDefinition, innermost last
  returned,     \* [definition path -> value returned by its compileTreeDefinition call]
  outcome,      \* what compileGlobalTreeDefinition gave its caller
  previous,     \* outcomes of the invocations made before, per tree
  editor,       \* what addStateCompiled made of the compile: the runtime's definition, the new state
  state,        \* the state of the editor: what the reducer was given last, or returned
  uid           \* genuid(): the next unused id

vars == <<definition, stack, returned, outcome, previous, editor, state, uid>>

(***************************************************************************)
(* Bounds of the model.                                                    *)
(***************************************************************************)
\* longest body of the main definition
MaxBody == 2
\* number of invocations of compileGlobalTreeDefinition in one behaviour
MaxInvocations == 3
\* longest body of the main definition of a behaviour with several invocations
MaxRepeatBody == 1
\* deepest recursion of traverseStreamExpr the model follows
MaxCalls == 12
\* the ids genuid() hands out stay below this
MaxUid == 9

(***************************************************************************)
(* Tree.ts: the nodes.                                                     *)
(***************************************************************************)
UndefinedLiteral(s) == [kind |-> "und", sid |-> s]
NumberLiteral(s, v) == [kind |-> "num", sid |-> s, val |-> v]
StreamReference(s) == [kind |-> "sref", ref |-> s]
\* an output of an application; named is TRUE when the output was given a name
ApplicationOut(s, n) == [sid |-> s, named |-> n]
FunctionReference(f) == [kind |-> "fref", ref |-> f]
Application(o, f, sa, fa) ==
  [kind |-> "app", outs |-> o, func |-> FunctionReference(f), sargs |-> sa, fargs |-> fa]
YieldExpression(i, e) == [kind |-> "yield", idx |-> i, expr |-> e]
NativeFunctionDefinition(f) == [kind |-> "nfdef", fid |-> f]
TreeFunctionDefinition(f, sp, fp, b) ==
  [kind |-> "tfdef", fid |-> f, sparams |-> sp, fparams |-> fp, body |-> b]
ArrayLiteral(s, e) == [kind |-> "arr", sid |-> s, elems |-> e]
StreamIndirection(s, e) == [kind |-> "ind", sid |-> s, expr |-> e]

isSimpleLiteralNode(node) == node.kind \in {"und", "num"}
isStreamExpressionNode(node) == node.kind \in {"und", "num", "arr", "ind", "sref", "app"}
\* the nodes that define the one stream id they carry
definesOwnId(node) == node.kind \in {"und", "num", "arr", "ind"}
isFunctionDefinitionNode(node) == node.kind \in {"nfdef", "tfdef"}

\* the children of a node, in the order visitChildren calls the visitor on them
Children(node) ==
  CASE node.kind = "app" -> node.sargs \o node.fargs
    [] node.kind = "yield" -> <<node.expr>>
    [] node.kind = "arr" -> node.elems
    [] node.kind = "ind" -> <<node.expr>>
    [] node.kind = "tfdef" -> node.body
    [] OTHER -> <<>>

\* the node a path leads to, from the node it starts at
RECURSIVE NodeAt(_, _)
NodeAt(node, path) ==
  IF path = <<>> THEN node ELSE NodeAt(Children(node)[Head(path)], Tail(path))

\* the id of the function a function expression stands for
functionExprId(node) == IF node.kind = "fref" THEN node.ref ELSE node.fid

\* the application id of an application node: unique to the node
ApplicationId(path) == [aid |-> path]
\* the stream id of an array literal or indirection, put where an application id goes
StreamIdAsApplicationId(sid) == [sid |-> sid]

\* streamExprReturnedIndex, had it taken the first output whether named or not
firstOutIndex(node) == IF Len(node.outs) > 0 THEN 1 ELSE 0
\* the index of the first output without a name, 0 if there is none
streamExprReturnedIndex(node) ==
  IF \E i \in 1..Len(node.outs) : ~node.outs[i].named
    THEN CHOOSE i \in 1..Len(node.outs) :
           ~node.outs[i].named /\ \A j \in 1..(i - 1) : node.outs[j].named
    ELSE 0

\* the returned id of an array literal or an indirection: the id it defines
ownIdReturned(node) == [ok |-> TRUE, sid |-> node.sid]

\* TreeUtil.ts; the result is [ok |-> FALSE] for undefined
streamExprReturnedId(node) ==
  CASE isSimpleLiteralNode(node) -> [ok |-> TRUE, sid |-> node.sid]
    [] node.kind = "sref" -> [ok |-> TRUE, sid |-> node.ref]
    [] node.kind \in {"arr", "ind"} -> ownIdReturned(node)
    [] node.kind = "app" ->
         IF streamExprReturnedIndex(node) = 0
           THEN [ok |-> FALSE]
           ELSE [ok |-> TRUE, sid |-> node.outs[streamExprReturnedIndex(node)].sid]

(***************************************************************************)
(* Environment.ts: a chain of frames, the local frame last. A frame is a   *)
(* function from the ids it binds.                                         *)
(***************************************************************************)
EmptyEnvironment == <<>>
NewEnvironment(outer) == Append(outer, <<>>)
EnvHas(env, k) == \E i \in 1..Len(env) : k \in DOMAIN env[i]
EnvHasLocal(env, k) == k \in DOMAIN env[Len(env)]
\* the local frame first, then the chain outwards; [found |-> FALSE] is undefined
EnvGet(env, k) ==
  IF EnvHas(env, k)
    THEN LET i == CHOOSE i \in 1..Len(env) :
                    k \in DOMAIN env[i] /\ \A j \in (i + 1)..Len(env) : k \notin DOMAIN env[j]
         IN [found |-> TRUE, val |-> env[i][k]]
    ELSE [found |-> FALSE]
EnvSet(env, k, v) == [env EXCEPT ![Len(env)] = (k :> v) @@ @]

\* StreamParameter, had a parameter been bound to the definition it is a parameter of
StreamParameterAsNode == [param |-> FALSE, node |-> <<>>]
\* what a stream id is bound to: null for a parameter, else the defining node
StreamParameter == [param |-> TRUE]
StreamDefinedBy(path) == [param |-> FALSE, node |-> path]
\* what a function id is bound to: the definition node
FunctionDefinedBy(node, path) == [kind |-> node.kind, node |-> path]

(***************************************************************************)
(* compileTreeDefinition, the first part: the local ids of a scope.        *)
(* The collector's state is the two environments and the two sets of local *)
(* ids; failed is set once 'must be unique' is thrown.                     *)
(***************************************************************************)
\* IdTaken, had the guard been left out
IdTakenNever(env, k) == FALSE
\* the guard before each set: is the id taken already
IdTaken(env, k) == EnvHas(env, k)

RegisterStream(c, sid, val) ==
  IF c.failed THEN c
  ELSE IF IdTaken(c.streamEnvironment, sid) THEN [c EXCEPT !.failed = TRUE]
  ELSE [c EXCEPT !.streamEnvironment = EnvSet(@, sid, val),
                 !.localStreamIds = @ \cup {sid}]

RegisterFunction(c, fid, val) ==
  IF c.failed THEN c
  ELSE IF IdTaken(c.functionEnvironment, fid) THEN [c EXCEPT !.failed = TRUE]
  ELSE [c EXCEPT !.functionEnvironment = EnvSet(@, fid, val),
                 !.localFunctionIds = Append(@, fid)]

\* definition.sparams.forEach
RECURSIVE RegisterStreamParams(_, _, _)
RegisterStreamParams(c, sparams, i) ==
  IF i > Len(sparams) THEN c
  ELSE RegisterStreamParams(RegisterStream(c, sparams[i], StreamParameter), sparams, i + 1)

\* RegisterOuts, had it registered the first output only
RegisterFirstOut(c, outs, path, i) ==
  IF outs = <<>> THEN c ELSE RegisterStream(c, outs[1].sid, StreamDefinedBy(path))

\* node.outs.forEach of an application
RECURSIVE RegisterOuts(_, _, _, _)
RegisterOuts(c, outs, path, i) ==
  IF i > Len(outs) THEN c
  ELSE RegisterOuts(RegisterStream(c, outs[i].sid, StreamDefinedBy(path)), outs, path, i + 1)

RECURSIVE visitToFindLocals(_, _, _)
RECURSIVE visitChildren(_, _, _, _)
\* visitToFindLocals, had it gone on into the definitions it meets
visitIntoDefinitions(c, node, path) ==
  IF c.failed THEN c
  ELSE
    LET c1 == IF definesOwnId(node) THEN RegisterStream(c, node.sid, StreamDefinedBy(path))
              ELSE IF node.kind = "app" THEN RegisterOuts(c, node.outs, path, 1)
              ELSE IF isFunctionDefinitionNode(node)
                THEN RegisterFunction(c, node.fid, FunctionDefinedBy(node, path))
              ELSE c
    IN visitChildren(c1, node, path, 1)

visitToFindLocals(c, node, path) ==
  IF c.failed THEN c
  ELSE
    LET c1 == IF definesOwnId(node) THEN RegisterStream(c, node.sid, StreamDefinedBy(path))
              ELSE IF node.kind = "app" THEN RegisterOuts(c, node.outs, path, 1)
              ELSE IF isFunctionDefinitionNode(node)
                THEN RegisterFunction(c, node.fid, FunctionDefinedBy(node, path))
              ELSE c
    IN IF isFunctionDefinitionNode(node) THEN c1 ELSE visitChildren(c1, node, path, 1)

visitChildren(c, node, path, i) ==
  IF i > Len(Children(node)) THEN c
  ELSE visitChildren(visitToFindLocals(c, Children(node)[i], Append(path, i)), node, path, i + 1)

\* FindLocals, had the function parameters been bound as the stream parameters are
FindLocalsAndFunctionParameters(def, path, a) ==
  LET fpids == {def.fparams[i] : i \in 1..Len(def.fparams)}
      c0 == [streamEnvironment |-> a.streamEnvironment,
             functionEnvironment |->
               [a.functionEnvironment EXCEPT ![Len(a.functionEnvironment)] =
                  [k \in fpids |-> FunctionDefinedBy(NativeFunctionDefinition(k), path)] @@ @],
             localStreamIds |-> a.localStreamIds,
             localFunctionIds |-> a.localFunctionIds \o def.fparams,
             failed |-> FALSE]
  IN visitChildren(RegisterStreamParams(c0, def.sparams, 1), def, path, 1)

\* the collector's state once the parameters and the body have been gone through
FindLocals(def, path, a) ==
  LET c0 == [streamEnvironment |-> a.streamEnvironment,
             functionEnvironment |-> a.functionEnvironment,
             localStreamIds |-> a.localStreamIds,
             localFunctionIds |-> a.localFunctionIds,
             failed |-> FALSE]
  IN visitChildren(RegisterStreamParams(c0, def.sparams, 1), def, path, 1)

(***************************************************************************)
(* An activation of compileTreeDefinition and of traverseStreamExpr.       *)
(***************************************************************************)
\* the environments and the sets of local ids a call starts with
NewScope(outerStreamEnvironment, outerFunctionEnvironment) ==
  [streamEnvironment |-> NewEnvironment(outerStreamEnvironment),
   functionEnvironment |-> NewEnvironment(outerFunctionEnvironment),
   localStreamIds |-> {},
   localFunctionIds |-> <<>>]

\* NewOutputs, had constStreams been a list kept from one compile to the next
StaleOutputs ==
  [constStreams |-> outcome.def.constStreams,
   apps |-> <<>>,
   localDefs |-> <<>>,
   yieldIds |-> <<>>,
   externalReferencedStreamIds |-> {},
   temporaryMarked |-> {},
   permanentMarked |-> {}]

\* the output lists and the mark sets, allocated once the local ids are known
NewOutputs ==
  [constStreams |-> <<>>,
   apps |-> <<>>,
   localDefs |-> <<>>,
   yieldIds |-> <<>>,
   externalReferencedStreamIds |-> {},
   temporaryMarked |-> {},
   permanentMarked |-> {}]

\* pc: where the call is (locals: identifying the local ids; defs: compiling the
\* local definitions; body: the pass over the body). li, bi: the next local
\* function id and the next body entry. inEntry: the traversal of body entry bi
\* has been called. calls: the activations of traverseStreamExpr, innermost last.
Activation(path, outerStreamEnvironment, outerFunctionEnvironment) ==
  [def |-> path, pc |-> "locals", li |-> 1, bi |-> 1, inEntry |-> FALSE, calls |-> <<>>]
    @@ NewScope(outerStreamEnvironment, outerFunctionEnvironment)
    @@ NewOutputs

\* at: call (just called), target (a reference waiting for the node it refers to),
\* sargs (an application between two stream arguments), sarg (waiting for one),
\* elems (an array literal between two elements), elem (waiting for one),
\* expr (an indirection waiting for its expression)
TraverseCall(path) == [node |-> path, at |-> "call", k |-> 0, streamArgIds |-> <<>>]

NoDefinition == [kind |-> "none", constStreams |-> <<>>]
Running == [status |-> "running", msg |-> "", def |-> NoDefinition]
Thrown(class, msg) == [status |-> class, msg |-> msg, def |-> NoDefinition]
Compiled(def) == [status |-> "ok", msg |-> "", def |-> def]

Top == stack[Len(stack)]
TopCall == Top.calls[Len(Top.calls)]
Node(path) == NodeAt(definition, path)
InTraversal == outcome.status = "running" /\ stack # <<>> /\ Top.pc = "body" /\ Top.calls # <<>>
Called == InTraversal /\ TopCall.at = "call"
\* ShortCircuit, had it taken a temporary mark for a permanent one
ShortCircuitAnyMark(a, node) == node \in a.permanentMarked \cup a.temporaryMarked

\* the two tests traverseStreamExpr starts with
ShortCircuit(a, node) == node \in a.permanentMarked
\* InProgress, had the test for a cycle been left out
InProgressNever(a, node) == FALSE
InProgress(a, node) == node \in a.temporaryMarked
Unmarked == ~ShortCircuit(Top, TopCall.node) /\ ~InProgress(Top, TopCall.node)
\* IsLocal, had it asked the whole environment
IsVisible(a, ref) == EnvHas(a.streamEnvironment, ref)
\* Unresolved, had the test been left out
UnresolvedNever(a, ref) == FALSE

\* the two tests on the target of a stream reference
IsLocal(a, ref) == ref \in a.localStreamIds
Unresolved(a, ref) == ~EnvHas(a.streamEnvironment, ref)

SetTop(a) == stack' = [stack EXCEPT ![Len(stack)] = a]
Throw(class, msg) ==
  /\ outcome' = Thrown(class, msg)
  /\ UNCHANGED <<definition, stack, returned, previous, editor, state, uid>>
\* the innermost traverseStreamExpr returns, after marking its node
ReturnFrom(a) == [a EXCEPT !.calls = SubSeq(@, 1, Len(@) - 1)]
\* Unmark, had the temporary mark been left on
UnmarkNothing(a) == a
\* the node of the innermost call loses its temporary mark
Unmark(a) == [a EXCEPT !.temporaryMarked = @ \ {TopCall.node}]
\* MarkPermanent, had the mark been left out
MarkNothing(a) == a
MarkPermanent(a) == [a EXCEPT !.permanentMarked = @ \cup {TopCall.node}]
\* the innermost traverseStreamExpr calls itself on another node
CallOn(a, at, path) ==
  [a EXCEPT !.calls = Append([@ EXCEPT ![Len(@)].at = at], TraverseCall(path))]

(***************************************************************************)
(* compileTreeDefinition                                                   *)
(***************************************************************************)
\* the parameters are registered and visitToFindLocals goes through the body
IdentifyLocals ==
  /\ outcome.status = "running" /\ stack # <<>> /\ Top.pc = "locals"
  /\ LET c == FindLocals(Node(Top.def), Top.def, Top)
     IN IF c.failed
          THEN Throw("Error", "must be unique")
          ELSE /\ SetTop([Top EXCEPT !.streamEnvironment = c.streamEnvironment,
                                     !.functionEnvironment = c.functionEnvironment,
                                     !.localStreamIds = c.localStreamIds,
                                     !.localFunctionIds = c.localFunctionIds,
                                     !.pc = IF c.localFunctionIds = <<>> THEN "body" ELSE "defs"])
               /\ UNCHANGED <<definition, returned, outcome, previous, editor, state, uid>>

\* the loop over localFunctionIds moves on to the next id
NextLocal(a) ==
  [a EXCEPT !.li = @ + 1, !.pc = IF a.li + 1 > Len(a.localFunctionIds) THEN "body" ELSE "defs"]

\* one turn of the loop over localFunctionIds: a tree function definition is
\* compiled by a call of compileTreeDefinition, a native one is passed over
CompileLocal ==
  /\ outcome.status = "running" /\ stack # <<>> /\ Top.pc = "defs"
  /\ LET funcDef == EnvGet(Top.functionEnvironment, Top.localFunctionIds[Top.li])
     IN IF ~funcDef.found
          THEN Throw("Error", "")
          ELSE /\ IF funcDef.val.kind = "tfdef"
                    THEN stack' = Append(stack, Activation(funcDef.val.node,
                                           Top.streamEnvironment, Top.functionEnvironment))
                    ELSE SetTop(NextLocal(Top))
               /\ UNCHANGED <<definition, returned, outcome, previous, editor, state, uid>>

\* one entry of the body: the expression of a yield or a loose stream expression
\* is traversed; any other entry throws
BodyEntry ==
  /\ outcome.status = "running" /\ stack # <<>> /\ Top.pc = "body"
  /\ ~Top.inEntry /\ Top.bi <= Len(Node(Top.def).body)
  /\ LET node == Node(Top.def).body[Top.bi]
         path == Append(Top.def, Top.bi)
     IN IF node.kind = "yield"
          THEN /\ SetTop([Top EXCEPT !.inEntry = TRUE, !.calls = <<TraverseCall(Append(path, 1))>>])
               /\ UNCHANGED <<definition, returned, outcome, previous, editor, state, uid>>
          ELSE IF isStreamExpressionNode(node)
            THEN /\ SetTop([Top EXCEPT !.inEntry = TRUE, !.calls = <<TraverseCall(path)>>])
                 /\ UNCHANGED <<definition, returned, outcome, previous, editor, state, uid>>
            ELSE Throw("Error", "")

\* RecordYield, had an index kept the id it was first given
RecordYieldOnce(yieldIds, idx, sid) == yieldIds @@ (idx :> sid)
\* yieldIds[node.idx] = exprRetSid
RecordYield(yieldIds, idx, sid) == (idx :> sid) @@ yieldIds

\* the traversal of a body entry has returned: a yield records the returned id
BodyEntryDone ==
  /\ outcome.status = "running" /\ stack # <<>> /\ Top.pc = "body"
  /\ Top.inEntry /\ Top.calls = <<>>
  /\ LET node == Node(Top.def).body[Top.bi]
     IN IF node.kind = "yield"
          THEN LET exprRetSid == streamExprReturnedId(node.expr)
               IN IF ~exprRetSid.ok
                    THEN Throw("Error", "")
                    ELSE /\ SetTop([Top EXCEPT !.inEntry = FALSE, !.bi = @ + 1,
                                               !.yieldIds = RecordYield(@, node.idx, exprRetSid.sid)])
                         /\ UNCHANGED <<definition, returned, outcome, previous, editor, state, uid>>
          ELSE /\ SetTop([Top EXCEPT !.inEntry = FALSE, !.bi = @ + 1])
               /\ UNCHANGED <<definition, returned, outcome, previous, editor, state, uid>>

\* the record a call of compileTreeDefinition builds at its end
CompiledDefinition(a) ==
  [streamParamIds |-> Node(a.def).sparams,
   funcParamIds |-> Node(a.def).fparams,
   constStreams |-> a.constStreams,
   apps |-> a.apps,
   localDefs |-> a.localDefs,
   yieldIds |-> a.yieldIds]

\* PushLocalDef, had the caller kept the external references of the local compile
PushLocalDefAndReferences(a, def) ==
  NextLocal([a EXCEPT !.localDefs = Append(@, [fid |-> a.localFunctionIds[a.li], def |-> def]),
                      !.externalReferencedStreamIds = @ \cup Top.externalReferencedStreamIds])
\* PushLocalDef, had the push been left out
DropLocalDef(a, def) == NextLocal(a)
\* the caller of a local compile keeps the compiled definition under the function id
PushLocalDef(a, def) ==
  NextLocal([a EXCEPT !.localDefs = Append(@, [fid |-> a.localFunctionIds[a.li], def |-> def])])

\* compileTreeDefinition returns: to the loop over the local definitions of the
\* enclosing call, or to compileGlobalTreeDefinition, which throws if a stream
\* id was referenced from outside
Return ==
  /\ outcome.status = "running" /\ stack # <<>> /\ Top.pc = "body"
  /\ ~Top.inEntry /\ Top.bi > Len(Node(Top.def).body)
  /\ returned' = (Top.def :> [def |-> CompiledDefinition(Top),
                              externalReferencedStreamIds |-> Top.externalReferencedStreamIds])
                   @@ returned
  /\ IF Len(stack) > 1
       THEN /\ stack' = [SubSeq(stack, 1, Len(stack) - 1) EXCEPT
                           ![Len(stack) - 1] = PushLocalDef(@, CompiledDefinition(Top))]
            /\ UNCHANGED outcome
       ELSE /\ stack' = <<>>
            /\ outcome' = IF Cardinality(Top.externalReferencedStreamIds) > 0
                            THEN Thrown("Error", "")
                            ELSE Compiled(CompiledDefinition(Top))
  /\ UNCHANGED <<definition, previous, editor, state, uid>>

(***************************************************************************)
(* traverseStreamExpr                                                      *)
(***************************************************************************)
\* the value of a constant stream: a literal's value, or undefined
Undefined == [undefined |-> TRUE]
Value(v) == [undefined |-> FALSE, val |-> v]

ConstStreamSpec(node) ==
  [sid |-> node.sid, val |-> IF node.kind = "und" THEN Undefined ELSE Value(node.val)]

\* AppSpec, had only the first output been listed
AppSpecOfFirstOut(node, path, streamArgIds) ==
  [sids |-> [i \in 1..1 |-> node.outs[i].sid],
   appId |-> ApplicationId(path),
   funcId |-> functionExprId(node.func),
   sargIds |-> streamArgIds,
   fargIds |-> [i \in 1..Len(node.fargs) |-> functionExprId(node.fargs[i])]]

\* the spec of an application node
AppSpec(node, path, streamArgIds) ==
  [sids |-> [i \in 1..Len(node.outs) |-> node.outs[i].sid],
   appId |-> ApplicationId(path),
   funcId |-> functionExprId(node.func),
   sargIds |-> streamArgIds,
   fargIds |-> [i \in 1..Len(node.fargs) |-> functionExprId(node.fargs[i])]]

\* ArraySpec, had the ids of the elements been left out
ArraySpecOfNothing(node, elemStreamIds) ==
  [sids |-> <<node.sid>>,
   appId |-> StreamIdAsApplicationId(node.sid),
   funcId |-> "Array_of",
   sargIds |-> <<>>,
   fargIds |-> <<>>]

\* the spec of the application an array literal stands for
ArraySpec(node, elemStreamIds) ==
  [sids |-> <<node.sid>>,
   appId |-> StreamIdAsApplicationId(node.sid),
   funcId |-> "Array_of",
   sargIds |-> elemStreamIds,
   fargIds |-> <<>>]

\* IndirectionSpec, had the indirection been given its own id as argument
IndirectionSpecOfItself(node, exprRetSid) ==
  [sids |-> <<node.sid>>,
   appId |-> StreamIdAsApplicationId(node.sid),
   funcId |-> "id",
   sargIds |-> <<node.sid>>,
   fargIds |-> <<>>]

\* the spec of the application an indirection stands for
IndirectionSpec(node, exprRetSid) ==
  [sids |-> <<node.sid>>,
   appId |-> StreamIdAsApplicationId(node.sid),
   funcId |-> "id",
   sargIds |-> <<exprRetSid>>,
   fargIds |-> <<>>]

\* Emit, had it put the spec at the front of the list
EmitFirst(apps, spec) == <<spec>> \o apps

\* apps.push
Emit(apps, spec) == Append(apps, spec)

\* called on a marked node: a permanently marked one returns at once, a
\* temporarily marked one is a cycle
TraverseMarked ==
  /\ Called /\ ~Unmarked
  /\ IF ShortCircuit(Top, TopCall.node)
       THEN /\ SetTop(ReturnFrom(Top))
            /\ UNCHANGED <<definition, returned, outcome, previous, editor, state, uid>>
       ELSE Throw("CompilationError", "graph cycle")

TraverseLiteral ==
  /\ Called /\ Unmarked /\ isSimpleLiteralNode(Node(TopCall.node))
  /\ SetTop(ReturnFrom(MarkPermanent(
       [Top EXCEPT !.constStreams = Append(@, ConstStreamSpec(Node(TopCall.node)))])))
  /\ UNCHANGED <<definition, returned, outcome, previous, editor, state, uid>>

\* a reference to a local stream traverses the node that defines it, unless it
\* is a parameter; any other reference must be bound in an enclosing scope
TraverseStreamReference ==
  /\ Called /\ Unmarked /\ Node(TopCall.node).kind = "sref"
  /\ Len(Top.calls) < MaxCalls
  /\ LET ref == Node(TopCall.node).ref
         targetExpressionNode == EnvGet(Top.streamEnvironment, ref)
     IN IF IsLocal(Top, ref)
          THEN IF ~targetExpressionNode.found
                 THEN Throw("Error", "")
                 ELSE /\ IF targetExpressionNode.val.param
                           THEN SetTop(ReturnFrom(MarkPermanent(Top)))
                           ELSE SetTop(CallOn([Top EXCEPT !.temporaryMarked = @ \cup {TopCall.node}],
                                              "target", targetExpressionNode.val.node))
                      /\ UNCHANGED <<definition, returned, outcome, previous, editor, state, uid>>
          ELSE IF Unresolved(Top, ref)
                 THEN Throw("CompilationError", "")
                 ELSE /\ SetTop(ReturnFrom(MarkPermanent(
                           [Top EXCEPT !.externalReferencedStreamIds = @ \cup {ref}])))
                      /\ UNCHANGED <<definition, returned, outcome, previous, editor, state, uid>>

\* the node a reference refers to has been traversed
StreamReferenceReturned ==
  /\ InTraversal /\ TopCall.at = "target"
  /\ SetTop(ReturnFrom(MarkPermanent(Unmark(Top))))
  /\ UNCHANGED <<definition, returned, outcome, previous, editor, state, uid>>

\* the function of an application is looked up, then the node is marked
TraverseApplication ==
  /\ Called /\ Unmarked /\ Node(TopCall.node).kind = "app"
  /\ LET functionNode == EnvGet(Top.functionEnvironment, functionExprId(Node(TopCall.node).func))
     IN IF ~functionNode.found
          THEN Throw("CompilationError", "")
          ELSE /\ SetTop([Top EXCEPT !.temporaryMarked = @ \cup {TopCall.node},
                                     !.calls[Len(Top.calls)].at = "sargs"])
               /\ UNCHANGED <<definition, returned, outcome, previous, editor, state, uid>>

\* the next stream argument is traversed
ApplicationStreamArg ==
  /\ InTraversal /\ TopCall.at = "sargs" /\ TopCall.k < Len(Node(TopCall.node).sargs)
  /\ Len(Top.calls) < MaxCalls
  /\ SetTop(CallOn(Top, "sarg", Append(TopCall.node, TopCall.k + 1)))
  /\ UNCHANGED <<definition, returned, outcome, previous, editor, state, uid>>

\* a stream argument has been traversed: its returned id is the argument id
ApplicationStreamArgReturned ==
  /\ InTraversal /\ TopCall.at = "sarg"
  /\ LET sargRetSid == streamExprReturnedId(Node(TopCall.node).sargs[TopCall.k + 1])
     IN IF ~sargRetSid.ok
          THEN Throw("Error", "")
          ELSE /\ SetTop([Top EXCEPT !.calls[Len(Top.calls)] =
                            [@ EXCEPT !.at = "sargs", !.k = @ + 1,
                                      !.streamArgIds = Append(@, sargRetSid.sid)]])
               /\ UNCHANGED <<definition, returned, outcome, previous, editor, state, uid>>

\* the function arguments are looked up, the node is unmarked, its spec appended
ApplicationEmit ==
  /\ InTraversal /\ TopCall.at = "sargs" /\ TopCall.k = Len(Node(TopCall.node).sargs)
  /\ LET node == Node(TopCall.node)
     IN IF \E i \in 1..Len(node.fargs) :
             ~EnvGet(Top.functionEnvironment, functionExprId(node.fargs[i])).found
          THEN Throw("Error", "")
          ELSE /\ SetTop(ReturnFrom(MarkPermanent(
                    [Unmark(Top) EXCEPT
                       !.apps = Emit(@, AppSpec(node, TopCall.node, TopCall.streamArgIds))])))
               /\ UNCHANGED <<definition, returned, outcome, previous, editor, state, uid>>

\* an array literal is marked, its elements are then traversed in order
TraverseArrayLiteral ==
  /\ Called /\ Unmarked /\ Node(TopCall.node).kind = "arr"
  /\ SetTop([Top EXCEPT !.temporaryMarked = @ \cup {TopCall.node},
                        !.calls[Len(Top.calls)].at = "elems"])
  /\ UNCHANGED <<definition, returned, outcome, previous, editor, state, uid>>

\* the next element is traversed
ArrayElem ==
  /\ InTraversal /\ TopCall.at = "elems" /\ TopCall.k < Len(Node(TopCall.node).elems)
  /\ Len(Top.calls) < MaxCalls
  /\ SetTop(CallOn(Top, "elem", Append(TopCall.node, TopCall.k + 1)))
  /\ UNCHANGED <<definition, returned, outcome, previous, editor, state, uid>>

\* an element has been traversed: its returned id is kept
ArrayElemReturned ==
  /\ InTraversal /\ TopCall.at = "elem"
  /\ LET elemRetSid == streamExprReturnedId(Node(TopCall.node).elems[TopCall.k + 1])
     IN IF ~elemRetSid.ok
          THEN Throw("Error", "")
          ELSE /\ SetTop([Top EXCEPT !.calls[Len(Top.calls)] =
                            [@ EXCEPT !.at = "elems", !.k = @ + 1,
                                      !.streamArgIds = Append(@, elemRetSid.sid)]])
               /\ UNCHANGED <<definition, returned, outcome, previous, editor, state, uid>>

\* the array literal is unmarked and the spec of an application of Array_of appended
ArrayEmit ==
  /\ InTraversal /\ TopCall.at = "elems" /\ TopCall.k = Len(Node(TopCall.node).elems)
  /\ SetTop(ReturnFrom(MarkPermanent(
       [Unmark(Top) EXCEPT
          !.apps = Emit(@, ArraySpec(Node(TopCall.node), TopCall.streamArgIds))])))
  /\ UNCHANGED <<definition, returned, outcome, previous, editor, state, uid>>

\* an indirection is marked and its expression traversed
TraverseStreamIndirection ==
  /\ Called /\ Unmarked /\ Node(TopCall.node).kind = "ind"
  /\ Len(Top.calls) < MaxCalls
  /\ SetTop(CallOn([Top EXCEPT !.temporaryMarked = @ \cup {TopCall.node}],
                   "expr", Append(TopCall.node, 1)))
  /\ UNCHANGED <<definition, returned, outcome, previous, editor, state, uid>>

\* the expression of an indirection has been traversed: the indirection is
\* unmarked and the spec of an application of id appended
StreamIndirectionReturned ==
  /\ InTraversal /\ TopCall.at = "expr"
  /\ LET exprRetSid == streamExprReturnedId(Node(TopCall.node).expr)
     IN IF ~exprRetSid.ok
          THEN /\ outcome' = Thrown("Error", "")
               /\ SetTop(Unmark(Top))
               /\ UNCHANGED <<definition, returned, previous, editor, state, uid>>
          ELSE /\ SetTop(ReturnFrom(MarkPermanent(
                    [Unmark(Top) EXCEPT
                       !.apps = Emit(@, IndirectionSpec(Node(TopCall.node), exprRetSid.sid))])))
               /\ UNCHANGED <<definition, returned, outcome, previous, editor, state, uid>>

(***************************************************************************)
(* The program trees the compiler is run on.                               *)
(***************************************************************************)
StreamIds == {"x", "y", "z"}
NativeFunctionIds == {"add"}
FunctionIds == {"add", "f", "nope"}

Out(s) == ApplicationOut(s, FALSE)
NamedOut(s) == ApplicationOut(s, TRUE)
References == {StreamReference(s) : s \in StreamIds}
\* applications whose first output has a name, and whose every output has one
NamedApplications ==
  {Application(<<NamedOut("y"), Out("z")>>, "add", <<>>, <<>>),
   Application(<<NamedOut("z")>>, "add", <<>>, <<>>)}
InnerApplications ==
  {Application(<<Out("z")>>, "add", sa, <<>>) : sa \in {<<>>, <<StreamReference("x")>>}}
    \cup NamedApplications
ArgExprs == References \cup {NumberLiteral("z", 3)} \cup InnerApplications
StreamArgLists ==
  {<<>>} \cup {<<a>> : a \in ArgExprs}
    \cup {<<a, b>> : a \in {StreamReference("x"), StreamReference("y")},
                     b \in {StreamReference("x"), StreamReference("y")}}
OutLists == {<<Out(s)>> : s \in StreamIds} \cup {<<Out("x"), Out("y")>>}

\* the bodies of the nested definitions
InnerEntries ==
  {StreamReference("x"),
   NumberLiteral("x", 3),
   YieldExpression(0, StreamReference("x")),
   Application(<<Out("z")>>, "add", <<StreamReference("x")>>, <<>>),
   Application(<<Out("z")>>, "add", <<>>,
               <<TreeFunctionDefinition("g", <<>>, <<>>, <<StreamReference("x")>>)>>)}
TreeDefinitions ==
  {TreeFunctionDefinition("f", sp, <<>>, <<e>>) : sp \in {<<>>, <<"x">>}, e \in InnerEntries}
    \cup {TreeFunctionDefinition("add", <<>>, <<>>, <<StreamReference("x")>>)}
    \cup {TreeFunctionDefinition("f", <<>>, <<>>, <<StreamReference("y")>>)}
    \cup {TreeFunctionDefinition("f", <<"y", "x">>, <<>>, <<e>>) :
            e \in {YieldExpression(0, StreamReference("x")),
                   Application(<<Out("z")>>, "add", <<StreamReference("x")>>, <<>>)}}
FunctionArgs ==
  {FunctionReference(f) : f \in FunctionIds} \cup TreeDefinitions \cup {NativeFunctionDefinition("g")}

Applications ==
  {Application(o, "add", sa, <<>>) : o \in OutLists, sa \in StreamArgLists}
    \cup {Application(<<Out("y")>>, f, <<>>, <<>>) : f \in FunctionIds}
    \cup {Application(<<Out("y")>>, "add", <<>>, <<fa>>) : fa \in FunctionArgs}
    \cup {Application(<<Out("z")>>, "f", <<>>, <<>>),
          Application(<<Out("x")>>, "add", <<>>, <<FunctionReference("f")>>)}
Yields ==
  {YieldExpression(i, e) : i \in 0..1, e \in References \cup {NumberLiteral("z", 3)}}
    \cup {YieldExpression(0, e) : e \in NamedApplications}
ArrayLiterals ==
  {ArrayLiteral("y", e) :
     e \in {<<>>, <<StreamReference("x")>>, <<StreamReference("y")>>,
            <<StreamReference("x"), NumberLiteral("z", 3)>>,
            <<StreamReference("z"), StreamReference("x")>>,
            <<Application(<<Out("z")>>, "add", <<StreamReference("x")>>, <<>>), StreamReference("z")>>}
        \cup {<<a>> : a \in NamedApplications}}
StreamIndirections ==
  {StreamIndirection("y", e) :
     e \in {StreamReference("x"), StreamReference("y"), NumberLiteral("z", 3)} \cup NamedApplications}
    \cup {StreamIndirection("x", ArrayLiteral("y", <<StreamReference("z")>>))}
    \cup {StreamIndirection(s, Application(<<Out("z")>>, "add", <<StreamReference("x")>>, <<>>)) :
            s \in {"x", "y"}}
BodyEntries ==
  {NumberLiteral("x", 3), UndefinedLiteral("y")} \cup References \cup Applications
    \cup Yields \cup TreeDefinitions \cup ArrayLiterals \cup StreamIndirections

RECURSIVE Bodies(_)
Bodies(n) ==
  IF n = 0 THEN {<<>>}
  ELSE Bodies(n - 1) \cup {Append(b, e) : b \in {b \in Bodies(n - 1) : Len(b) = n - 1}, e \in BodyEntries}

FunctionParameters == <<"nope", "add">>
MainDefinitions ==
  {TreeFunctionDefinition("main", sp, <<>>, b) : sp \in {<<>>, <<"x">>}, b \in Bodies(MaxBody)}
    \cup {TreeFunctionDefinition("main", sp, FunctionParameters, b) :
            sp \in {<<>>, <<"x">>}, b \in Bodies(1)}

(***************************************************************************)
(* The caller: addStateCompiled of the editor's reducer.                   *)
(***************************************************************************)
Null == [null |-> TRUE]
\* the "empty" definition addStateCompiled falls back on
EmptyDefinition ==
  [parameterStreams |-> <<>>,
   literalStreamValues |-> <<>>,
   applications |-> <<>>,
   containedDefinitions |-> <<>>,
   yieldStream |-> Null]

\* result: pending (the compile is under way), state (the reducer returned a
\* state), thrown (the reducer threw). updated: updateCompiledDefinition was
\* called, with compiledDefinition. program: the tree of the returned state.
Pending == [result |-> "pending", updated |-> FALSE, compiledDefinition |-> Null, program |-> Null]
Rethrown == [result |-> "thrown", updated |-> FALSE, compiledDefinition |-> Null, program |-> Null]
NewState(newCompiledDefinition) ==
  [result |-> "state", updated |-> TRUE, compiledDefinition |-> newCompiledDefinition,
   program |-> definition]

\* the catch of addStateCompiled: is the error one it keeps to itself
Caught(e) == e.status = "CompilationError"

\* the compile has returned or thrown: the runtime is handed the compiled
\* definition, or the empty one if the error was caught; any other error is
\* thrown on to the caller of the reducer
addStateCompiled ==
  /\ outcome.status # "running" /\ editor = Pending
  /\ editor' = IF outcome.status = "ok" THEN NewState(outcome.def)
               ELSE IF Caught(outcome) THEN NewState(EmptyDefinition)
               ELSE Rethrown
  /\ UNCHANGED <<definition, stack, returned, outcome, previous, state, uid>>

(***************************************************************************)
(* The editor's reducer: the program tree the editor holds, the selection  *)
(* path into it, and the handlers of the navigation and editing actions.   *)
(* A stream id is a number; genuid() is a counter.                         *)
(***************************************************************************)
\* a segment of a path: the name of a property, or a position in an array
Field(name) == [field |-> name, index |-> -1]
Index(i) == [field |-> "", index |-> i]

IdentifierNode(name) == [type |-> "Identifier", name |-> name]
ProgramNode(mainDefinition) == [type |-> "Program", mainDefinition |-> mainDefinition]
ParameterNode(streamId, name) ==
  [type |-> "Parameter", streamId |-> streamId, identifier |-> IdentifierNode(name)]
UserFunctionNode(functionId, parameters, expressions) ==
  [type |-> "UserFunction", functionId |-> functionId, identifier |-> Null,
   parameters |-> parameters, expressions |-> expressions]
UndefinedExpressionNode(streamId, identifier) ==
  [type |-> "UndefinedExpression", streamId |-> streamId, identifier |-> identifier]
IntegerLiteralNode(streamId, identifier, value) ==
  [type |-> "IntegerLiteral", streamId |-> streamId, identifier |-> identifier, value |-> value]
StreamReferenceNode(streamId, identifier, targetStreamId) ==
  [type |-> "StreamReference", streamId |-> streamId, identifier |-> identifier,
   targetStreamId |-> targetStreamId]
ArrayLiteralNode(streamId, identifier, items) ==
  [type |-> "ArrayLiteral", streamId |-> streamId, identifier |-> identifier, items |-> items]
ApplicationNode(streamId, identifier, functionId, arguments, functionArguments) ==
  [type |-> "Application", streamId |-> streamId, identifier |-> identifier,
   functionId |-> functionId, arguments |-> arguments, functionArguments |-> functionArguments]

isExpressionNode(node) ==
  node.type \in {"UndefinedExpression", "IntegerLiteral", "ArrayLiteral", "StreamReference",
                 "Application"}

\* what a value is: a node, an array of nodes, or undefined
ArrayOf(nodes) == [array |-> nodes]
isNode(v) == "type" \in DOMAIN v
isArray(v) == "array" \in DOMAIN v
ArrayProperties == {"parameters", "expressions", "arguments", "functionArguments", "items"}
NodeProperties == {"mainDefinition"}

\* cur[seg]: undefined if cur has no such property or no such position (and
\* where cur is undefined itself, which is a TypeError: no node either way)
Property(cur, seg) ==
  IF isArray(cur)
  THEN IF seg.index >= 0 /\ seg.index < Len(cur.array) THEN cur.array[seg.index + 1]
       ELSE Undefined
  ELSE IF seg.field \in DOMAIN cur /\ seg.field \in ArrayProperties THEN ArrayOf(cur[seg.field])
  ELSE IF seg.field \in DOMAIN cur /\ seg.field \in NodeProperties THEN cur[seg.field]
  ELSE Undefined

RECURSIVE nodeFromPath(_, _)
nodeFromPath(root, path) ==
  IF path = <<>> THEN root
  ELSE nodeFromPath(Property(root, path[1]), Tail(path))

\* traverseTree along a path with one node replaced: the nodes above it are
\* rebuilt around the new node
RECURSIVE replaceNode(_, _, _)
replaceNode(root, path, newNode) ==
  IF path = <<>> THEN newNode
  ELSE IF path[1].field \in NodeProperties
  THEN [root EXCEPT ![path[1].field] = replaceNode(@, Tail(path), newNode)]
  ELSE [root EXCEPT ![path[1].field] =
          [@ EXCEPT ![path[2].index + 1] = replaceNode(@, Tail(Tail(path)), newNode)]]

\* the result of a handler: the new node, the new subpath, the new editing
\* state, and the next unused id; undefined if the handler does not handle
HandlerResult(node, subpath, editingSelected, u) ==
  [node |-> node, subpath |-> subpath, editingSelected |-> editingSelected, uid |-> u]
NodeEditState(node) == [originalNode |-> node, tentativeNode |-> node]
\* a handler that throws
Throws == [throws |-> TRUE]

Max2(a, b) == IF a >= b THEN a ELSE b
Min2(a, b) == IF a <= b THEN a ELSE b
\* array.slice(from, to)
slice(array, from, to) == SubSeq(array, Max2(from, 0) + 1, Min2(to, Len(array)))
isSelection(subpath, property) ==
  Len(subpath) = 2 /\ subpath[1] = Field(property)

(***************************************************************************)
(* HANDLERS: what a node on the selection path does of an action, given    *)
(* the rest of the selection path below it.                                *)
(***************************************************************************)
step(action) == IF action = "MOVE_UP" THEN -1 ELSE 1

\* deleteDefinitionExpression without its second case
deleteAnyDefinitionExpression(node, removeIdx, u) ==
  LET expressions == slice(node.expressions, 0, removeIdx)
                       \o slice(node.expressions, removeIdx + 1, Len(node.expressions))
  IN  HandlerResult([node EXCEPT !.expressions = expressions],
                    <<Field("expressions"),
                      Index(Min2(Max2(removeIdx - 1, 0), Len(node.expressions) - 1))>>,
                    Null, u)
deleteDefinitionExpression(node, removeIdx, u) ==
  LET expressions == slice(node.expressions, 0, removeIdx)
                       \o slice(node.expressions, removeIdx + 1, Len(node.expressions))
      n == UndefinedExpressionNode(u, Null)
  IN  IF Len(expressions) > 0
      THEN HandlerResult([node EXCEPT !.expressions = expressions],
                         <<Field("expressions"),
                           Index(Min2(Max2(removeIdx - 1, 0), Len(node.expressions) - 1))>>,
                         Null, u)
      ELSE HandlerResult([node EXCEPT !.expressions = <<n>>],
                         <<Field("expressions"), Index(0)>>, NodeEditState(n), u + 1)

UserFunctionMove(node, subpath, action, u) ==
  IF isSelection(subpath, "expressions")
  THEN HandlerResult(node,
         <<Field("expressions"),
           Index(Min2(Max2(subpath[2].index + step(action), 0), Len(node.expressions) - 1))>>,
         Null, u)
  ELSE Undefined

UserFunctionDelete(node, subpath, u) ==
  IF isSelection(subpath, "expressions")
  THEN deleteDefinitionExpression(node, subpath[2].index, u)
  ELSE Undefined

UserFunctionZoomIn(node, subpath, u) ==
  IF Len(subpath) = 0
  THEN HandlerResult(node, <<Field("expressions"), Index(0)>>, Null, u)
  ELSE Undefined

UserFunctionEditAfter(node, subpath, u) ==
  IF Len(subpath) >= 2 /\ subpath[1] = Field("expressions")
  THEN LET afterIdx == subpath[2].index
           insertingExprNode == UndefinedExpressionNode(u, Null)
       IN  HandlerResult(
             [node EXCEPT !.expressions =
                slice(@, 0, afterIdx + 1) \o <<insertingExprNode>>
                  \o slice(@, afterIdx + 1, Len(@))],
             <<Field("expressions"), Index(afterIdx + 1)>>,
             NodeEditState(insertingExprNode), u + 1)
  ELSE Undefined

ArrayLiteralZoomOut(node, subpath, u) ==
  IF Len(subpath) = 2
  THEN IF subpath[1] # Field("items") \/ subpath[2].index < 0 THEN Throws
       ELSE HandlerResult(node, <<>>, Null, u)
  ELSE Undefined

ArrayLiteralZoomIn(node, subpath, u) ==
  IF Len(subpath) = 0
  THEN IF Len(node.items) = 0
       THEN LET newExprNode == UndefinedExpressionNode(u, Null)
            IN  HandlerResult([node EXCEPT !.items = <<newExprNode>>],
                              <<Field("items"), Index(0)>>, NodeEditState(newExprNode), u + 1)
       ELSE HandlerResult(node, <<Field("items"), Index(0)>>, Null, u)
  ELSE Undefined

ArrayLiteralMove(node, subpath, action, u) ==
  IF isSelection(subpath, "items")
  THEN LET newIdx == subpath[2].index + step(action)
       IN  IF newIdx < 0 \/ newIdx >= Len(node.items)
           THEN HandlerResult(node, <<>>, Null, u)
           ELSE HandlerResult(node, <<Field("items"), Index(newIdx)>>, Null, u)
  ELSE Undefined

ArrayLiteralEditAfter(node, subpath, u) ==
  IF isSelection(subpath, "items")
  THEN LET afterIdx == subpath[2].index
           insertingExprNode == UndefinedExpressionNode(u, Null)
       IN  HandlerResult(
             [node EXCEPT !.items =
                slice(@, 0, afterIdx + 1) \o <<insertingExprNode>>
                  \o slice(@, afterIdx + 1, Len(@))],
             <<Field("items"), Index(afterIdx + 1)>>,
             NodeEditState(insertingExprNode), u + 1)
  ELSE Undefined

ArrayLiteralDelete(node, subpath, u) ==
  IF Len(subpath) = 2
  THEN IF Len(node.items) = 0 \/ subpath[2].index < 0 THEN Throws
       ELSE LET removeIdx == subpath[2].index
                items == slice(node.items, 0, removeIdx)
                           \o slice(node.items, removeIdx + 1, Len(node.items))
            IN  IF Len(items) > 0
                THEN HandlerResult([node EXCEPT !.items = items],
                       <<Field("items"),
                         Index(Min2(Max2(removeIdx - 1, 0), Len(node.items) - 1))>>,
                       Null, u)
                ELSE HandlerResult([node EXCEPT !.items = items], <<>>, Null, u)
  ELSE Undefined

ApplicationZoomOut(node, subpath, u) ==
  IF Len(subpath) = 2
  THEN IF subpath[1] \in {Field("arguments"), Field("functionArguments")}
            /\ subpath[2].index >= 0
       THEN HandlerResult(node, <<>>, Null, u)
       ELSE Throws
  ELSE IF Len(subpath) >= 3 /\ subpath[1] = Field("functionArguments") /\ subpath[2].index >= 0
  THEN HandlerResult(node, slice(subpath, 0, 2), Null, u)
  ELSE Undefined

ApplicationZoomIn(node, subpath, u) ==
  IF Len(subpath) = 0 /\ Len(node.arguments) > 0
  THEN HandlerResult(node, <<Field("arguments"), Index(0)>>, Null, u)
  ELSE IF Len(subpath) = 0 /\ Len(node.functionArguments) > 0
  THEN HandlerResult(node, <<Field("functionArguments"), Index(0)>>, Null, u)
  ELSE Undefined

ApplicationMove(node, subpath, action, u) ==
  IF isSelection(subpath, "arguments")
  THEN LET newIdx == subpath[2].index + step(action)
       IN  IF newIdx >= Len(node.arguments) /\ Len(node.functionArguments) # 0
           THEN HandlerResult(node, <<Field("functionArguments"), Index(0)>>, Null, u)
           ELSE IF newIdx < 0 \/ newIdx >= Len(node.arguments)
           THEN HandlerResult(node, <<>>, Null, u)
           ELSE HandlerResult(node, <<Field("arguments"), Index(newIdx)>>, Null, u)
  ELSE IF isSelection(subpath, "functionArguments")
  THEN LET newIdx == subpath[2].index + step(action)
       IN  IF newIdx < 0 /\ Len(node.arguments) # 0
           THEN HandlerResult(node, <<Field("arguments"), Index(Len(node.arguments) - 1)>>,
                              Null, u)
           ELSE IF newIdx < 0 \/ newIdx >= Len(node.arguments)
           THEN HandlerResult(node, <<>>, Null, u)
           ELSE HandlerResult(node, <<Field("functionArguments"), Index(newIdx)>>, Null, u)
  ELSE Undefined

ApplicationDelete(node, subpath, u) ==
  IF isSelection(subpath, "arguments")
  THEN LET idx == subpath[2].index
       IN  HandlerResult(
             [node EXCEPT !.arguments[idx + 1] =
                UndefinedExpressionNode(@.streamId, @.identifier)],
             <<Field("arguments"), Index(idx)>>, Null, u)
  ELSE Undefined

\* the handlers of the table that match the node's type and the action's type:
\* for these actions there is at most one
HANDLERS(node, subpath, action, u) ==
  CASE node.type = "UserFunction" /\ action \in {"MOVE_UP", "MOVE_DOWN"} ->
         UserFunctionMove(node, subpath, action, u)
    [] node.type = "UserFunction" /\ action = "DELETE" -> UserFunctionDelete(node, subpath, u)
    [] node.type = "UserFunction" /\ action \in {"ZOOM_IN", "MOVE_RIGHT"} ->
         UserFunctionZoomIn(node, subpath, u)
    [] node.type = "UserFunction" /\ action = "EDIT_AFTER" ->
         UserFunctionEditAfter(node, subpath, u)
    [] node.type = "ArrayLiteral" /\ action \in {"ZOOM_OUT", "MOVE_LEFT"} ->
         ArrayLiteralZoomOut(node, subpath, u)
    [] node.type = "ArrayLiteral" /\ action \in {"ZOOM_IN", "MOVE_RIGHT"} ->
         ArrayLiteralZoomIn(node, subpath, u)
    [] node.type = "ArrayLiteral" /\ action \in {"MOVE_UP", "MOVE_DOWN"} ->
         ArrayLiteralMove(node, subpath, action, u)
    [] node.type = "ArrayLiteral" /\ action = "EDIT_AFTER" ->
         ArrayLiteralEditAfter(node, subpath, u)
    [] node.type = "ArrayLiteral" /\ action = "DELETE" -> ArrayLiteralDelete(node, subpath, u)
    [] node.type = "Application" /\ action \in {"ZOOM_OUT", "MOVE_LEFT"} ->
         ApplicationZoomOut(node, subpath, u)
    [] node.type = "Application" /\ action \in {"ZOOM_IN", "MOVE_RIGHT"} ->
         ApplicationZoomIn(node, subpath, u)
    [] node.type = "Application" /\ action \in {"MOVE_UP", "MOVE_DOWN"} ->
         ApplicationMove(node, subpath, action, u)
    [] node.type = "Application" /\ action = "DELETE" -> ApplicationDelete(node, subpath, u)
    [] OTHER -> Undefined

(***************************************************************************)
(* applyActionToProgram: the nodes on the selection path are visited from  *)
(* the selected one upwards (traverseTree is post-order and keeps to the   *)
(* path); the first one with a handler that handles the action ends the    *)
(* traversal, and its new node takes its place in the tree.                *)
(***************************************************************************)
nodeSplitPath(path, idx) == <<slice(path, 0, idx), slice(path, idx, Len(path))>>

NewCore(program, selectionPath, editingSelected, u) ==
  [program |-> program, selectionPath |-> selectionPath,
   editingSelected |-> editingSelected, uid |-> u]

RECURSIVE visitAlongPath(_, _, _, _, _)
visitAlongPath(program, selectionPath, action, u, idx) ==
  IF idx < 0 THEN Undefined
  ELSE LET split == nodeSplitPath(selectionPath, idx)
           node == nodeFromPath(program, split[1])
           handlerResult == IF isNode(node) THEN HANDLERS(node, split[2], action, u)
                            ELSE Undefined
       IN  IF handlerResult = Undefined
           THEN visitAlongPath(program, selectionPath, action, u, idx - 1)
           ELSE IF handlerResult = Throws THEN Throws
           ELSE NewCore(replaceNode(program, split[1], handlerResult.node),
                        split[1] \o handlerResult.subpath,
                        handlerResult.editingSelected, handlerResult.uid)

applyActionToProgram(st, action, u) ==
  visitAlongPath(st.program, st.selectionPath, action, u, Len(st.selectionPath))

(***************************************************************************)
(* The derived state: the lookup of the nodes by stream id, the dangling   *)
(* references made undefined, the compile.                                 *)
(***************************************************************************)
\* the nodes recursiveBuildIdMaps enters under their stream id, in its order
RECURSIVE recursiveBuildIdMaps(_), buildIdMapsOfAll(_)
recursiveBuildIdMaps(node) ==
  (IF isExpressionNode(node) THEN <<node>> ELSE <<>>)
    \o CASE node.type = "Program" -> recursiveBuildIdMaps(node.mainDefinition)
         [] node.type = "UserFunction" ->
              node.parameters \o buildIdMapsOfAll(node.expressions)
         [] node.type = "Application" ->
              buildIdMapsOfAll(node.arguments) \o buildIdMapsOfAll(node.functionArguments)
         [] node.type = "ArrayLiteral" -> buildIdMapsOfAll(node.items)
         [] OTHER -> <<>>
buildIdMapsOfAll(nodes) ==
  IF nodes = <<>> THEN <<>>
  ELSE recursiveBuildIdMaps(Head(nodes)) \o buildIdMapsOfAll(Tail(nodes))

\* 'stream ids must be unique'
uniqueStreamIds(program) ==
  LET entered == recursiveBuildIdMaps(program)
  IN  \A i, j \in DOMAIN entered : entered[i].streamId = entered[j].streamId => i = j

\* derivedLookups.streamIdToNode
addStateIdLookups(program) ==
  LET entered == recursiveBuildIdMaps(program)
  IN  [id \in {entered[i].streamId : i \in DOMAIN entered} |->
         entered[CHOOSE i \in DOMAIN entered : entered[i].streamId = id]]

\* one traversal of the tree against the lookup built before it: a reference
\* whose target the lookup does not have becomes an undefined expression with
\* a new id and the identifier of the reference
RECURSIVE undefineDanglingIn(_, _, _), undefineDanglingInAll(_, _, _)
undefineDanglingIn(node, streamIdToNode, u) ==
  CASE node.type = "Program" ->
         LET m == undefineDanglingIn(node.mainDefinition, streamIdToNode, u)
         IN  [node |-> [node EXCEPT !.mainDefinition = m.node], uid |-> m.uid]
    [] node.type = "UserFunction" ->
         LET e == undefineDanglingInAll(node.expressions, streamIdToNode, u)
         IN  [node |-> [node EXCEPT !.expressions = e.nodes], uid |-> e.uid]
    [] node.type = "Application" ->
         LET a == undefineDanglingInAll(node.arguments, streamIdToNode, u)
             f == undefineDanglingInAll(node.functionArguments, streamIdToNode, a.uid)
         IN  [node |-> [node EXCEPT !.arguments = a.nodes, !.functionArguments = f.nodes],
              uid |-> f.uid]
    [] node.type = "ArrayLiteral" ->
         LET i == undefineDanglingInAll(node.items, streamIdToNode, u)
         IN  [node |-> [node EXCEPT !.items = i.nodes], uid |-> i.uid]
    [] node.type = "StreamReference" ->
         IF node.targetStreamId \in DOMAIN streamIdToNode
         THEN [node |-> node, uid |-> u]
         ELSE [node |-> UndefinedExpressionNode(u, node.identifier), uid |-> u + 1]
    [] OTHER -> [node |-> node, uid |-> u]
undefineDanglingInAll(nodes, streamIdToNode, u) ==
  IF nodes = <<>> THEN [nodes |-> <<>>, uid |-> u]
  ELSE LET h == undefineDanglingIn(Head(nodes), streamIdToNode, u)
           t == undefineDanglingInAll(Tail(nodes), streamIdToNode, h.uid)
       IN  [nodes |-> <<h.node>> \o t.nodes, uid |-> t.uid]

undefineDanglingStreamRefs(program, streamIdToNode, u) ==
  undefineDanglingIn(program, streamIdToNode, u)

\* how the compile of the new tree ends: with a compiled definition, with a
\* CompilationError (the empty definition is used), with another error
CompileEndings == {"ok", "CompilationError", "Error"}

State(program, selectionPath, editingSelected, streamIdToNode, compiledDefinition) ==
  [program |-> program, selectionPath |-> selectionPath,
   editingSelected |-> editingSelected,
   derivedLookups |-> [streamIdToNode |-> streamIdToNode],
   liveMain |-> [compiledDefinition |-> compiledDefinition]]

\* the state addDerivedState makes of the handled action, or Throws, and the
\* next unused id
addDerivedState(newCore, ending) ==
  IF ~uniqueStreamIds(newCore.program) THEN [state |-> Throws, uid |-> newCore.uid]
  ELSE LET danglingRemoved ==
             undefineDanglingStreamRefs(newCore.program, addStateIdLookups(newCore.program),
                                        newCore.uid)
       IN  IF ~uniqueStreamIds(danglingRemoved.node) \/ ending = "Error"
           THEN [state |-> Throws, uid |-> danglingRemoved.uid]
           ELSE [state |-> State(danglingRemoved.node, newCore.selectionPath,
                                 newCore.editingSelected,
                                 addStateIdLookups(danglingRemoved.node),
                                 IF ending = "ok" THEN "compiled" ELSE "empty"),
                 uid |-> danglingRemoved.uid]

\* the reducer on one action: the state it returns and the next unused id; an
\* action no node handles returns the state it was given, and a throw leaves
\* the caller with that state
reducer(st, u, action, ending) ==
  LET newCore == applyActionToProgram(st, action, u)
  IN  IF newCore \in {Undefined, Throws} THEN [state |-> st, uid |-> u]
      ELSE LET derived == addDerivedState(newCore, ending)
           IN  [state |-> IF derived.state = Throws THEN st ELSE derived.state,
                uid |-> derived.uid]

(***************************************************************************)
(* The states the reducer starts from: initialState, and states with an    *)
(* application of two stream arguments and one function argument, with a   *)
(* reference to a named reference, with array literals.                    *)
(***************************************************************************)
MainDefinition(expressions) == ProgramNode(UserFunctionNode("main", <<>>, expressions))

\* md = is mouse down(); show value(if(md, 10, 20))
InitialProgram ==
  MainDefinition(
    <<ApplicationNode(1, IdentifierNode("md"), "is mouse down", <<>>, <<>>),
      ApplicationNode(2, Null, "show value",
        <<ApplicationNode(3, Null, "if",
            <<StreamReferenceNode(4, Null, 1), IntegerLiteralNode(5, Null, 10),
              IntegerLiteralNode(6, Null, 20)>>, <<>>)>>, <<>>)>>)

\* fold(1, 2, value => value)
FoldProgram ==
  MainDefinition(
    <<ApplicationNode(1, Null, "fold",
        <<IntegerLiteralNode(2, Null, 1), IntegerLiteralNode(3, Null, 2)>>,
        <<UserFunctionNode("f", <<ParameterNode(4, "value")>>,
                           <<StreamReferenceNode(5, Null, 4)>>)>>)>>)

\* x = 1; y = x; y
ChainProgram ==
  MainDefinition(
    <<IntegerLiteralNode(1, IdentifierNode("x"), 1),
      StreamReferenceNode(2, IdentifierNode("y"), 1),
      StreamReferenceNode(3, Null, 2)>>)

\* a = [1, []]; map(a, value => value)
ArrayProgram ==
  MainDefinition(
    <<ArrayLiteralNode(1, IdentifierNode("a"),
        <<IntegerLiteralNode(2, Null, 1), ArrayLiteralNode(3, Null, <<>>)>>),
      ApplicationNode(4, Null, "map", <<StreamReferenceNode(5, Null, 1)>>,
        <<UserFunctionNode("f", <<ParameterNode(6, "value")>>,
                           <<StreamReferenceNode(7, Null, 6)>>)>>)>>)

Programs == {InitialProgram, FoldProgram, ChainProgram, ArrayProgram}

\* the paths of the expressions and of the function arguments of a tree
RECURSIVE SelectablePaths(_, _), SelectablePathsOfAll(_, _, _)
SelectablePaths(node, path) ==
  CASE node.type = "Program" ->
         SelectablePaths(node.mainDefinition, path \o <<Field("mainDefinition")>>)
    [] node.type = "UserFunction" ->
         (IF Len(path) > 1 THEN {path} ELSE {})
           \cup SelectablePathsOfAll(node.expressions, path, "expressions")
    [] node.type = "Application" ->
         {path} \cup SelectablePathsOfAll(node.arguments, path, "arguments")
                \cup SelectablePathsOfAll(node.functionArguments, path, "functionArguments")
    [] node.type = "ArrayLiteral" -> {path} \cup SelectablePathsOfAll(node.items, path, "items")
    [] OTHER -> {path}
SelectablePathsOfAll(nodes, path, property) ==
  UNION {SelectablePaths(nodes[i], path \o <<Field(property), Index(i - 1)>>) :
           i \in DOMAIN nodes}

\* genuid(): the ids of the trees above were handed out before
FirstUid == 8

initialState ==
  State(InitialProgram, <<Field("mainDefinition"), Field("expressions"), Index(0)>>, Null,
        addStateIdLookups(InitialProgram), "compiled")


(***************************************************************************)
(* compileGlobalTreeDefinition                                             *)
(***************************************************************************)
GlobalFunctionEnvironment ==
  [f \in NativeFunctionIds |-> FunctionDefinedBy(NativeFunctionDefinition(f), <<>>)]

\* the call of compileTreeDefinition on the main definition: an empty stream
\* environment, and a function environment over the frame of the global functions
CompileGlobal ==
  <<Activation(<<>>, NewEnvironment(EmptyEnvironment),
               NewEnvironment(<<GlobalFunctionEnvironment>>))>>

Init ==
  /\ definition \in MainDefinitions
  /\ outcome = Running
  /\ stack = CompileGlobal
  /\ returned = <<>>
  /\ previous = <<>>
  /\ editor = Pending
  /\ state = initialState
  /\ uid = FirstUid

Next ==
  \/ IdentifyLocals
  \/ CompileLocal
  \/ BodyEntry
  \/ BodyEntryDone
  \/ Return
  \/ TraverseMarked
  \/ TraverseLiteral
  \/ TraverseStreamReference
  \/ StreamReferenceReturned
  \/ TraverseApplication
  \/ ApplicationStreamArg
  \/ ApplicationStreamArgReturned
  \/ ApplicationEmit
  \/ TraverseArrayLiteral
  \/ ArrayElem
  \/ ArrayElemReturned
  \/ ArrayEmit
  \/ TraverseStreamIndirection
  \/ StreamIndirectionReturned
  \/ addStateCompiled

Spec == Init /\ [][Next]_vars

(***************************************************************************)
(* compileGlobalTreeDefinition called again and again, as the editor does  *)
(* after every edit: on the tree of the first call or on another one.      *)
(***************************************************************************)
\* x := add(y); y := add(x)
CycleTree ==
  TreeFunctionDefinition("main", <<>>, <<>>,
    <<Application(<<Out("x")>>, "add", <<StreamReference("y")>>, <<>>),
      Application(<<Out("y")>>, "add", <<StreamReference("x")>>, <<>>)>>)
\* x := 3; y := add(x, x)
SharedLiteralTree ==
  TreeFunctionDefinition("main", <<>>, <<>>,
    <<NumberLiteral("x", 3),
      Application(<<Out("y")>>, "add", <<StreamReference("x"), StreamReference("x")>>, <<>>)>>)
OtherDefinitions == {CycleTree, SharedLiteralTree}
RepeatDefinitions == {d \in MainDefinitions : Len(d.body) <= MaxRepeatBody}
FirstDefinition == IF previous = <<>> THEN definition ELSE previous[1].definition

Invoke(d) ==
  /\ outcome.status # "running" /\ editor # Pending
  /\ editor' = Pending
  /\ Len(previous) + 1 < MaxInvocations
  /\ previous' = Append(previous, [definition |-> definition, outcome |-> outcome])
  /\ definition' = d
  /\ stack' = CompileGlobal
  /\ returned' = <<>>
  /\ outcome' = Running
  /\ UNCHANGED <<state, uid>>

InitRepeat ==
  /\ definition \in RepeatDefinitions
  /\ outcome = Running
  /\ stack = CompileGlobal
  /\ returned = <<>>
  /\ previous = <<>>
  /\ editor = Pending
  /\ state = initialState
  /\ uid = FirstUid

\* one compile, run to its end: the compile is synchronous and has no suspension
\* point, so a step that can be taken is taken
InitLive ==
  /\ definition \in RepeatDefinitions \cup OtherDefinitions
  /\ outcome = Running
  /\ stack = CompileGlobal
  /\ returned = <<>>
  /\ previous = <<>>
  /\ editor = Pending
  /\ state = initialState
  /\ uid = FirstUid

SpecLive == InitLive /\ [][Next]_vars /\ WF_vars(Next)

NextRepeat ==
  \/ Next
  \/ \E d \in {FirstDefinition} \cup OtherDefinitions : Invoke(d)

SpecRepeat == InitRepeat /\ [][NextRepeat]_vars

(***************************************************************************)
(* The reducer, action after action, on a state of the editor.             *)
(***************************************************************************)
InitEditor ==
  /\ \E program \in Programs :
       /\ \E selectionPath \in SelectablePaths(program, <<>>) :
            state = State(program, selectionPath, Null, addStateIdLookups(program),
                          "compiled")
       /\ uid = FirstUid
  /\ definition = TreeFunctionDefinition("main", <<>>, <<>>, <<>>)
  /\ outcome = Running
  /\ stack = CompileGlobal
  /\ returned = <<>>
  /\ previous = <<>>
  /\ editor = Pending

MOVE_UP ==
  \E ending \in CompileEndings :
    LET next == reducer(state, uid, "MOVE_UP", ending)
    IN  /\ next.uid <= MaxUid
        /\ state' = next.state
        /\ uid' = next.uid
        /\ UNCHANGED <<definition, stack, returned, outcome, previous, editor>>
MOVE_DOWN ==
  \E ending \in CompileEndings :
    LET next == reducer(state, uid, "MOVE_DOWN", ending)
    IN  /\ next.uid <= MaxUid
        /\ state' = next.state
        /\ uid' = next.uid
        /\ UNCHANGED <<definition, stack, returned, outcome, previous, editor>>
MOVE_LEFT ==
  \E ending \in CompileEndings :
    LET next == reducer(state, uid, "MOVE_LEFT", ending)
    IN  /\ next.uid <= MaxUid
        /\ state' = next.state
        /\ uid' = next.uid
        /\ UNCHANGED <<definition, stack, returned, outcome, previous, editor>>
MOVE_RIGHT ==
  \E ending \in CompileEndings :
    LET next == reducer(state, uid, "MOVE_RIGHT", ending)
    IN  /\ next.uid <= MaxUid
        /\ state' = next.state
        /\ uid' = next.uid
        /\ UNCHANGED <<definition, stack, returned, outcome, previous, editor>>
ZOOM_IN ==
  \E ending \in CompileEndings :
    LET next == reducer(state, uid, "ZOOM_IN", ending)
    IN  /\ next.uid <= MaxUid
        /\ state' = next.state
        /\ uid' = next.uid
        /\ UNCHANGED <<definition, stack, returned, outcome, previous, editor>>
ZOOM_OUT ==
  \E ending \in CompileEndings :
    LET next == reducer(state, uid, "ZOOM_OUT", ending)
    IN  /\ next.uid <= MaxUid
        /\ state' = next.state
        /\ uid' = next.uid
        /\ UNCHANGED <<definition, stack, returned, outcome, previous, editor>>
DELETE ==
  \E ending \in CompileEndings :
    LET next == reducer(state, uid, "DELETE", ending)
    IN  /\ next.uid <= MaxUid
        /\ state' = next.state
        /\ uid' = next.uid
        /\ UNCHANGED <<definition, stack, returned, outcome, previous, editor>>
EDIT_AFTER ==
  \E ending \in CompileEndings :
    LET next == reducer(state, uid, "EDIT_AFTER", ending)
    IN  /\ next.uid <= MaxUid
        /\ state' = next.state
        /\ uid' = next.uid
        /\ UNCHANGED <<definition, stack, returned, outcome, previous, editor>>

NextEditor ==
  \/ MOVE_UP
  \/ MOVE_DOWN
  \/ MOVE_LEFT
  \/ MOVE_RIGHT
  \/ ZOOM_IN
  \/ ZOOM_OUT
  \/ DELETE
  \/ EDIT_AFTER

SpecEditor == InitEditor /\ [][NextEditor]_vars

(***************************************************************************)
(* The program tree as the claims read it, without the compiler.           *)
(***************************************************************************)
Range(f) == {f[i] : i \in DOMAIN f}
IsPrefix(p, q) == Len(p) <= Len(q) /\ SubSeq(q, 1, Len(p)) = p
Done == outcome.status # "running"

\* the paths of the nodes below a node, the bodies of function definitions left out
RECURSIVE LocalPaths(_, _)
LocalPaths(node, path) ==
  UNION {{Append(path, i)} \cup
           (IF isFunctionDefinitionNode(Children(node)[i])
              THEN {}
              ELSE LocalPaths(Children(node)[i], Append(path, i)))
         : i \in 1..Len(Children(node))}

\* the nodes of the scope of the definition at path s
ScopeNodes(s) == LocalPaths(Node(s), s)
NodesOfKind(s, kinds) == {p \in ScopeNodes(s) : Node(p).kind \in kinds}

\* the definitions of the tree: the main one and the nested ones
RECURSIVE ScopesBelow(_)
ScopesBelow(s) == {s} \cup UNION {ScopesBelow(p) : p \in NodesOfKind(s, {"tfdef"})}
Scopes == ScopesBelow(<<>>)
EnclosingScopes(s) == {q \in Scopes : q # s /\ IsPrefix(q, s)}

\* the places of a scope that define a stream id, and those that define a function id
StreamDefs(s) ==
  {[at |-> s, i |-> k, sid |-> Node(s).sparams[k]] : k \in 1..Len(Node(s).sparams)}
    \cup {[at |-> p, i |-> 0, sid |-> Node(p).sid] : p \in NodesOfKind(s, {"und", "num", "arr", "ind"})}
    \cup UNION {{[at |-> p, i |-> k, sid |-> Node(p).outs[k].sid] : k \in 1..Len(Node(p).outs)}
                : p \in NodesOfKind(s, {"app"})}
FunctionDefs(s) == {[at |-> p, fid |-> Node(p).fid] : p \in NodesOfKind(s, {"tfdef", "nfdef"})}
DefinedStreams(s) == {d.sid : d \in StreamDefs(s)}
DefinedFunctions(s) == {d.fid : d \in FunctionDefs(s)}
VisibleStreams(s) == DefinedStreams(s) \cup UNION {DefinedStreams(q) : q \in EnclosingScopes(s)}
VisibleFunctions(s) ==
  NativeFunctionIds \cup DefinedFunctions(s) \cup UNION {DefinedFunctions(q) : q \in EnclosingScopes(s)}

\* an id defined twice in the scope itself
DuplicateInScope(s) ==
  \/ \E d, e \in StreamDefs(s) : d # e /\ d.sid = e.sid
  \/ \E d, e \in FunctionDefs(s) : d # e /\ d.fid = e.fid
\* an id defined in the scope that an enclosing scope (or the global frame) binds
ShadowInScope(s) ==
  \/ \E q \in EnclosingScopes(s) : DefinedStreams(s) \cap DefinedStreams(q) # {}
  \/ \E q \in EnclosingScopes(s) : DefinedFunctions(s) \cap DefinedFunctions(q) # {}
  \/ DefinedFunctions(s) \cap NativeFunctionIds # {}

\* the stream expressions whose returned ids a node takes
Operands(node) ==
  CASE node.kind = "app" -> node.sargs
    [] node.kind = "arr" -> node.elems
    [] node.kind \in {"ind", "yield"} -> <<node.expr>>
    [] OTHER -> <<>>
\* every expression a node of the scope takes the returned id of has one
OperandsReturnIds(s) ==
  \A p \in NodesOfKind(s, {"app", "arr", "ind", "yield"}) :
    \A i \in 1..Len(Operands(Node(p))) : streamExprReturnedId(Operands(Node(p))[i]).ok

\* the trees on which no throw of a plain Error is possible: no id is defined
\* twice or shadowed, no body entry is a function definition, every function
\* argument is bound and every argument or yielded expression has a returned id
NoInvariantViolation ==
  \A s \in Scopes :
    /\ ~DuplicateInScope(s) /\ ~ShadowInScope(s)
    /\ \A i \in 1..Len(Node(s).body) : ~isFunctionDefinitionNode(Node(s).body[i])
    /\ \A p \in NodesOfKind(s, {"app"}) :
         \A i \in 1..Len(Node(p).fargs) : functionExprId(Node(p).fargs[i]) \in VisibleFunctions(s)
    /\ OperandsReturnIds(s)

\* every stream reference and every function an application applies is bound
Resolvable ==
  \A s \in Scopes :
    /\ \A p \in NodesOfKind(s, {"sref"}) : Node(p).ref \in VisibleStreams(s)
    /\ \A p \in NodesOfKind(s, {"app"}) : functionExprId(Node(p).func) \in VisibleFunctions(s)

OutIds(p) == {Node(p).outs[k].sid : k \in 1..Len(Node(p).outs)}
\* application a has a stream argument that is a reference to an output of application b
Consumes(a, b) ==
  \E i \in 1..Len(Node(a).sargs) :
    Node(a).sargs[i].kind = "sref" /\ Node(a).sargs[i].ref \in OutIds(b)
MutualCycle(s) ==
  \E a, b \in NodesOfKind(s, {"app"}) : a # b /\ Consumes(a, b) /\ Consumes(b, a)

\* the ids the references of a scope refer to that the scope does not define
ExternalReferences(s) == {Node(p).ref : p \in NodesOfKind(s, {"sref"})} \ DefinedStreams(s)
\* a stream reference to an id no scope of the tree defines
Dangling ==
  \E s \in Scopes : \E p \in NodesOfKind(s, {"sref"}) :
    Node(p).ref \notin UNION {DefinedStreams(q) : q \in Scopes}

\* the nodes of the scope s that the spec can have been emitted for
Emitters(s, spec) ==
  IF "aid" \in DOMAIN spec.appId
    THEN {p \in NodesOfKind(s, {"app"}) : p = spec.appId.aid}
    ELSE {p \in NodesOfKind(s, {"arr", "ind"}) : Node(p).sid = spec.appId.sid}

\* the throw of traverseStreamExpr at a stream reference, the stack as it was then
ThrownAtReference ==
  /\ outcome.status = "CompilationError" /\ outcome.msg = ""
  /\ stack # <<>> /\ Top.calls # <<>> /\ Node(TopCall.node).kind = "sref"

(***************************************************************************)
(* The claims.                                                             *)
(***************************************************************************)
TopologicallyValid(apps) ==
  \A i, j \in 1..Len(apps) :
    (i # j /\ Range(apps[i].sargIds) \cap Range(apps[j].sids) # {}) => j < i

\* C1: in the apps list of every Compiled Definition a call returns (and of every
\* call under way), an id among the sargIds of the spec at position i that is an
\* output id of another spec of the list is output by a spec at a position below i.
C1_TopologicalValidity ==
  /\ \A s \in DOMAIN returned : TopologicallyValid(returned[s].def.apps)
  /\ \A n \in 1..Len(stack) : TopologicallyValid(stack[n].apps)

\* the application declared first consumes an output of the one declared second,
\* and is emitted after it
C1_Witness ==
  /\ outcome.status = "ok" /\ Len(outcome.def.apps) = 2
  /\ outcome.def.apps[1].appId = ApplicationId(<<2>>)
  /\ outcome.def.apps[2].appId = ApplicationId(<<1>>)
  /\ Range(outcome.def.apps[2].sargIds) \cap Range(outcome.def.apps[1].sids) # {}

\* C2: a scope in which two applications consume each other's outputs through
\* reference arguments never returns a Compiled Definition and the compile ends
\* without one; 'graph cycle' is a CompilationError thrown as traverseStreamExpr is
\* called on a temporarily marked node; and it is the error the compile ends with
\* when nothing else of the tree is at fault.
C2_CycleDetection ==
  /\ \A s \in Scopes : MutualCycle(s) => s \notin DOMAIN returned
  /\ (Done /\ \E s \in Scopes : MutualCycle(s)) =>
       outcome.status # "ok" /\ outcome.def = NoDefinition
  /\ outcome.msg = "graph cycle" =>
       /\ outcome.status = "CompilationError" /\ outcome.def = NoDefinition
       /\ stack # <<>> /\ Top.calls # <<>>
       /\ TopCall.at = "call" /\ TopCall.node \in Top.temporaryMarked
  /\ (Done /\ NoInvariantViolation /\ Resolvable /\ \E s \in Scopes : MutualCycle(s)) =>
       outcome = Thrown("CompilationError", "graph cycle")

C2_Witness ==
  /\ outcome = Thrown("CompilationError", "graph cycle")
  /\ MutualCycle(Top.def)
  /\ Node(TopCall.node).kind = "app"

\* C3: the compile of a tree with a stream reference to an id defined nowhere in
\* it ends without a Compiled Definition, and with a CompilationError unless the
\* tree breaks an invariant (which throws a plain Error first).
C3_ClosureCheck ==
  (Done /\ Dangling) =>
    /\ outcome.status # "ok" /\ outcome.def = NoDefinition
    /\ NoInvariantViolation => outcome.status = "CompilationError"

\* the throw at a reference of the root scope to an id defined nowhere
C3_Witness ==
  /\ Dangling /\ NoInvariantViolation /\ ThrownAtReference
  /\ Top.def = <<>> /\ Node(TopCall.node).ref \notin VisibleStreams(<<>>)

\* the sargIds of every spec are the returned ids of the stream arguments of its node
ResolvedArguments(s, apps) ==
  \A i \in 1..Len(apps) :
    \E p \in Emitters(s, apps[i]) :
      apps[i].sargIds =
        [k \in 1..Len(Operands(Node(p))) |-> streamExprReturnedId(Operands(Node(p))[k]).sid]

\* C4: a reference in a scope to a stream id bound only in an enclosing scope does
\* not throw; no call marks, traverses or emits a node outside its own scope; the
\* argument ids of the emitted specs are the referenced ids as written; and the
\* set of external ids a call returns holds exactly the ids its references take
\* from enclosing scopes.
C4_ExternalReference ==
  /\ ThrownAtReference => Node(TopCall.node).ref \notin VisibleStreams(Top.def)
  /\ \A n \in 1..Len(stack) :
       /\ stack[n].temporaryMarked \cup stack[n].permanentMarked \subseteq ScopeNodes(stack[n].def)
       /\ \A c \in 1..Len(stack[n].calls) : stack[n].calls[c].node \in ScopeNodes(stack[n].def)
       /\ \A i \in 1..Len(stack[n].apps) : Emitters(stack[n].def, stack[n].apps[i]) # {}
  /\ \A s \in DOMAIN returned :
       /\ returned[s].externalReferencedStreamIds = ExternalReferences(s)
       /\ ResolvedArguments(s, returned[s].def.apps)

\* a nested definition has returned with an external id that one of its
\* applications takes as an argument
C4_Witness ==
  \E s \in DOMAIN returned :
    /\ s # <<>>
    /\ \E i \in 1..Len(returned[s].def.apps) :
         Range(returned[s].def.apps[i].sargIds) \cap returned[s].externalReferencedStreamIds # {}

\* the specs of a list that were emitted for the application node at path p
SpecsOf(apps, p) == {i \in 1..Len(apps) : apps[i].appId = ApplicationId(p)}

\* C5: in every Compiled Definition a call returns, each application node of the
\* scope has exactly one spec, with all its output ids in declaration order,
\* however many references name its outputs; and a reference used as an argument
\* or yielded resolves to the id it names.
C5_MultiOutputApplication ==
  \A s \in DOMAIN returned :
    LET def == returned[s].def IN
    /\ \A p \in NodesOfKind(s, {"app"}) :
         /\ Cardinality(SpecsOf(def.apps, p)) = 1
         /\ \A i \in SpecsOf(def.apps, p) :
              def.apps[i].sids = [k \in 1..Len(Node(p).outs) |-> Node(p).outs[k].sid]
    /\ \A p \in NodesOfKind(s, {"app"}) :
         \A i \in SpecsOf(def.apps, p) : \A k \in 1..Len(def.apps[i].sargIds) :
           Node(p).sargs[k].kind = "sref" => def.apps[i].sargIds[k] = Node(p).sargs[k].ref
    /\ \A i \in DOMAIN def.yieldIds :
         def.yieldIds[i] \in {streamExprReturnedId(Node(p).expr).sid :
                                p \in {q \in NodesOfKind(s, {"yield"}) : Node(q).idx = i}}

\* an application with two outputs, each named by a reference argument of another
\* application, has one spec
C5_Witness ==
  /\ outcome.status = "ok"
  /\ \E p \in NodesOfKind(<<>>, {"app"}) :
       /\ Len(Node(p).outs) = 2
       /\ Cardinality(SpecsOf(outcome.def.apps, p)) = 1
       /\ \E i \in 1..Len(outcome.def.apps) :
            /\ outcome.def.apps[i].appId # ApplicationId(p)
            /\ OutIds(p) \subseteq Range(outcome.def.apps[i].sargIds)

\* C6: x := 3; y := add(x, x) compiles to the one constant {sid: x, val: 3} and the
\* one application spec with sargIds [x, x]; and in every Compiled Definition a
\* call returns each literal node of the scope has exactly one constant spec.
C6_SharedLiteral ==
  /\ (definition = SharedLiteralTree /\ Done) =>
       /\ outcome.status = "ok"
       /\ outcome.def.constStreams = <<[sid |-> "x", val |-> Value(3)]>>
       /\ Len(outcome.def.apps) = 1
       /\ outcome.def.apps[1].sids = <<"y">>
       /\ outcome.def.apps[1].funcId = "add"
       /\ outcome.def.apps[1].sargIds = <<"x", "x">>
  /\ \A s \in DOMAIN returned :
       \A p \in NodesOfKind(s, {"und", "num"}) :
         Cardinality({i \in 1..Len(returned[s].def.constStreams) :
                        returned[s].def.constStreams[i] = ConstStreamSpec(Node(p))}) = 1

C6_Witness == definition = SharedLiteralTree /\ outcome.status = "ok"

\* the body entries of a scope that are tree function definitions
DefinitionEntries(s) ==
  {Append(s, i) : i \in {i \in 1..Len(Node(s).body) : Node(s).body[i].kind = "tfdef"}}

\* C7: a main definition whose body holds, besides literals, tree function
\* definitions that nothing applies or takes as an argument (each compiling on
\* its own) compiles: localDefs holds the Compiled Definition of each of them and
\* apps is the empty list the literals alone give.
C7_UnreferencedLocalFunction ==
  (/\ Done
   /\ DefinitionEntries(<<>>) # {}
   /\ ~DuplicateInScope(<<>>)
   /\ \A i \in 1..Len(Node(<<>>).body) :
        \/ isSimpleLiteralNode(Node(<<>>).body[i])
        \/ <<i>> \in DefinitionEntries(<<>>) /\ <<i>> \in DOMAIN returned)
  => /\ outcome.status = "ok"
     /\ outcome.def.apps = <<>>
     /\ \A p \in DefinitionEntries(<<>>) :
          \E i \in 1..Len(outcome.def.localDefs) :
            outcome.def.localDefs[i] = [fid |-> Node(p).fid, def |-> returned[p].def]

C9_UniquenessPerFrame ==
  outcome = Thrown("Error", "must be unique") => DuplicateInScope(Top.def)

\* the activation has neither traversed nor emitted anything
NothingDone(a) ==
  /\ a.calls = <<>> /\ ~a.inEntry
  /\ a.constStreams = <<>> /\ a.apps = <<>> /\ a.yieldIds = <<>>
  /\ a.temporaryMarked = {} /\ a.permanentMarked = {}

\* C10: the compile of a scope that defines a stream id or a function id twice
\* never gets beyond identifying the local ids: it throws 'must be unique' with
\* nothing traversed or emitted, in that scope or in the scopes around it; no
\* Compiled Definition is returned for the scope, and none by the compile.
C10_DuplicateDefinition ==
  /\ \A n \in 1..Len(stack) :
       DuplicateInScope(stack[n].def) => stack[n].pc = "locals" /\ NothingDone(stack[n])
  /\ outcome.msg = "must be unique" =>
       /\ outcome.status = "Error" /\ outcome.def = NoDefinition
       /\ \A n \in 1..Len(stack) : NothingDone(stack[n])
  /\ \A s \in Scopes : DuplicateInScope(s) => s \notin DOMAIN returned
  /\ (Done /\ \E s \in Scopes : DuplicateInScope(s)) =>
       outcome.status # "ok" /\ outcome.def = NoDefinition
  /\ (Done /\ DuplicateInScope(<<>>)) => outcome = Thrown("Error", "must be unique")

\* the throw for a nested scope that defines an id twice and shadows none
C10_Witness ==
  /\ outcome = Thrown("Error", "must be unique")
  /\ Len(stack) = 2
  /\ DuplicateInScope(Top.def) /\ ~ShadowInScope(Top.def)

\* the indices a list of yield ids has no entry at, below its highest index
Holes(yieldIds) == UNION {0..j : j \in DOMAIN yieldIds} \ DOMAIN yieldIds

\* C11: the yieldIds of every Compiled Definition a call returns, and of the one
\* the compile ends with, has an entry at every index below its highest one.
C11_DenseYields ==
  /\ \A s \in DOMAIN returned : Holes(returned[s].def.yieldIds) = {}
  /\ outcome.status = "ok" => Holes(outcome.def.yieldIds) = {}

\* C12: whenever the compile has thrown, a CompilationError or any other error,
\* addStateCompiled hands the runtime the empty definition and the reducer returns
\* a state that holds the edited tree.
C12_FailureContainment ==
  (outcome.status \notin {"running", "ok"} /\ editor # Pending) =>
    /\ editor.result = "state"
    /\ editor.updated /\ editor.compiledDefinition = EmptyDefinition
    /\ editor.program = definition

\* an application of the tree applies, or takes as an argument, a function id
\* that no frame of its scope's function environment binds
UnboundFunction ==
  \E s \in Scopes : \E p \in NodesOfKind(s, {"app"}) :
    \/ functionExprId(Node(p).func) \notin VisibleFunctions(s)
    \/ \E i \in 1..Len(Node(p).fargs) : functionExprId(Node(p).fargs[i]) \notin VisibleFunctions(s)

\* the tree breaks no invariant, unbound function ids left aside
NoOtherViolation ==
  \A s \in Scopes :
    /\ ~DuplicateInScope(s) /\ ~ShadowInScope(s)
    /\ \A i \in 1..Len(Node(s).body) : ~isFunctionDefinitionNode(Node(s).body[i])
    /\ OperandsReturnIds(s)

\* C13: the compile of a tree (with no other invariant broken) in which an
\* application applies or takes as an argument a function id that is bound
\* nowhere ends with a CompilationError.
C13_UnresolvableFunction ==
  (Done /\ UnboundFunction /\ NoOtherViolation) => outcome.status = "CompilationError"

\* no two specs of a list of constants or of applications are the same
EmitsOnce(a) ==
  /\ \A i, j \in 1..Len(a.apps) : i # j => a.apps[i].appId # a.apps[j].appId
  /\ \A i, j \in 1..Len(a.constStreams) : i # j => a.constStreams[i] # a.constStreams[j]

\* the calls under way are no more than the tree has scopes and the scope has
\* nodes (and the one call that finds a cycle)
BoundedByTree ==
  /\ Len(stack) <= Cardinality(Scopes)
  /\ \A n \in 1..Len(stack) :
       /\ Len(stack[n].calls) <= Cardinality(ScopeNodes(stack[n].def)) + 1
       /\ Len(stack[n].calls) < MaxCalls

\* C14: every compile ends, with a Compiled Definition or with a throw; until
\* then the recursion is no deeper than the tree is large, and no call of
\* compileTreeDefinition emits two specs for one node.
C14_Termination ==
  /\ <>Done
  /\ [](BoundedByTree /\ \A n \in 1..Len(stack) : EmitsOnce(stack[n]))

\* a compile has ended in spite of a cycle of references; another has ended
\* after the compile of a nested definition
C14_Witness ==
  /\ Done
  /\ \/ outcome.msg = "graph cycle" /\ Len(Top.calls) >= 3
     \/ outcome.status = "ok" /\ \E s \in DOMAIN returned : Len(s) = 2

\* the scopes nested in the scope s, at any depth
NestedScopes(s) == {q \in Scopes : q # s /\ IsPrefix(s, q)}
\* a reference of the scope s to an id that only a scope nested in s defines
RefersIntoNested(s, p) ==
  /\ Node(p).kind = "sref" /\ p \in ScopeNodes(s)
  /\ Node(p).ref \notin VisibleStreams(s)
  /\ \E q \in NestedScopes(s) : Node(p).ref \in DefinedStreams(q)

\* C15: once the local ids of a scope are identified, its sets of local ids and
\* the local frames of its environments hold the ids the scope itself defines
\* and none that only a nested definition's body defines; a reference of the
\* scope to such an id is not resolved: the compile never returns a definition
\* for the scope and, in a tree that breaks no invariant, ends with a
\* CompilationError.
C15_CollectorStaysLocal ==
  /\ \A n \in 1..Len(stack) :
       stack[n].pc # "locals" =>
         /\ stack[n].localStreamIds = DefinedStreams(stack[n].def)
         /\ Range(stack[n].localFunctionIds) = DefinedFunctions(stack[n].def)
         /\ DOMAIN stack[n].streamEnvironment[Len(stack[n].streamEnvironment)]
              = DefinedStreams(stack[n].def)
         /\ DOMAIN stack[n].functionEnvironment[Len(stack[n].functionEnvironment)]
              = DefinedFunctions(stack[n].def)
  /\ \A s \in Scopes :
       (\E p \in ScopeNodes(s) : RefersIntoNested(s, p)) =>
         /\ s \notin DOMAIN returned
         /\ (Done /\ NoInvariantViolation) => outcome.status = "CompilationError"

\* the throw at a reference of the main definition to an id that the body of a
\* nested definition, compiled before, defines
C15_Witness ==
  /\ ThrownAtReference /\ Top.def = <<>> /\ NoInvariantViolation
  /\ RefersIntoNested(<<>>, TopCall.node)
  /\ \E q \in DOMAIN returned : Node(TopCall.node).ref \in DefinedStreams(q)

\* the nodes of the scope s that the node at p waits for: the stream arguments
\* of an application, the elements of an array literal, the expression of an
\* indirection, the node that defines the id a local reference refers to
DependsOn(s, p) ==
  IF Node(p).kind = "sref"
    THEN {d.at : d \in {d \in StreamDefs(s) : d.sid = Node(p).ref /\ d.at # s}}
    ELSE {Append(p, i) : i \in 1..Len(Operands(Node(p)))}

\* the nodes whose traversal is under way and has got beyond the two mark tests
InProgressNodes(a) == {a.calls[c].node : c \in {c \in 1..Len(a.calls) : a.calls[c].at # "call"}}

MarkDiscipline(a) ==
  /\ a.temporaryMarked \cap a.permanentMarked = {}
  /\ a.temporaryMarked = InProgressNodes(a)
  /\ \A p \in a.temporaryMarked : Node(p).kind \in {"app", "arr", "ind", "sref"}
  /\ \A p \in a.permanentMarked : DependsOn(a.def, p) \subseteq a.permanentMarked
  /\ a.calls = <<>> => a.temporaryMarked = {}

Parameters(s) == Range(Node(s).sparams)
\* the yields of the scope s that alone have their index
SoleYields(s) ==
  {q \in NodesOfKind(s, {"yield"}) :
     \A r \in NodesOfKind(s, {"yield"}) : Node(r).idx = Node(q).idx => r = q}

\* C17: no call of traverseStreamExpr is made for the target of a reference to a
\* stream parameter of the scope; and in every Compiled Definition a call returns
\* no constant and no application spec defines a parameter id, a reference to a
\* parameter gives the parameter id as the argument id of the consuming
\* application or as the yield id, and streamParamIds is the list of the
\* definition's stream parameters in declaration order.
C17_ParameterReferences ==
  /\ \A n \in 1..Len(stack) : \A c \in 1..Len(stack[n].calls) :
       stack[n].calls[c].at = "target" =>
         Node(stack[n].calls[c].node).ref \notin Parameters(stack[n].def)
  /\ \A s \in DOMAIN returned :
       LET def == returned[s].def IN
       /\ def.streamParamIds = Node(s).sparams
       /\ \A i \in 1..Len(def.constStreams) : def.constStreams[i].sid \notin Parameters(s)
       /\ \A i \in 1..Len(def.apps) : Range(def.apps[i].sids) \cap Parameters(s) = {}
       /\ \A p \in NodesOfKind(s, {"app"}) :
            \A i \in SpecsOf(def.apps, p) : \A k \in 1..Len(Node(p).sargs) :
              (Node(p).sargs[k].kind = "sref" /\ Node(p).sargs[k].ref \in Parameters(s)) =>
                def.apps[i].sargIds[k] = Node(p).sargs[k].ref
       /\ \A q \in SoleYields(s) :
            (Node(q).expr.kind = "sref" /\ Node(q).expr.ref \in Parameters(s)) =>
              /\ Node(q).idx \in DOMAIN def.yieldIds
              /\ def.yieldIds[Node(q).idx] = Node(q).expr.ref

\* a definition with the parameters y, x has returned: its one application
\* takes the parameter x, and nothing but that application was emitted
C17_Witness ==
  \E s \in DOMAIN returned :
    /\ returned[s].def.streamParamIds = <<"y", "x">>
    /\ returned[s].def.constStreams = <<>>
    /\ Len(returned[s].def.apps) = 1
    /\ returned[s].def.apps[1].sargIds = <<"x">>

\* the tree function definitions of the scope s, and the one with the id fid
TreeFunctions(s) == NodesOfKind(s, {"tfdef"})
IsTreeFunction(s, fid) == \E p \in TreeFunctions(s) : Node(p).fid = fid
TreeFunctionAt(s, fid) == CHOOSE p \in TreeFunctions(s) : Node(p).fid = fid
\* how many of its local function ids the loop of a call has dealt with
LocalsDone(a) ==
  IF a.pc = "locals" THEN 0
  ELSE IF a.pc = "defs" THEN a.li - 1 ELSE Len(a.localFunctionIds)
\* localDefs of a call has one entry for each tree function among the ids dealt
\* with, in their order, and it is the definition the compile of it returned
CompiledOnce(a) ==
  LET done == SelectSeq(SubSeq(a.localFunctionIds, 1, LocalsDone(a)),
                        LAMBDA fid : IsTreeFunction(a.def, fid))
  IN /\ Len(a.localDefs) = Len(done)
     /\ \A i \in 1..Len(done) :
          /\ TreeFunctionAt(a.def, done[i]) \in DOMAIN returned
          /\ a.localDefs[i] = [fid |-> done[i], def |-> returned[TreeFunctionAt(a.def, done[i])].def]

\* C18: a call of compileTreeDefinition is made only by the loop over the local
\* function ids of the enclosing call, for the tree function definition of the
\* id the loop is at, while no traversal of that call is under way; a traversal
\* never leaves the nodes of its scope; localDefs grows by one entry with each
\* tree function id the loop has dealt with; and a returned Compiled
\* Definition has exactly one localDefs entry for each tree function
\* definition of its scope and none for a native one, however many applications
\* name the function.
C18_LocalFunctionCompiledOnce ==
  /\ \A n \in 1..Len(stack) :
       /\ CompiledOnce(stack[n])
       /\ \A c \in 1..Len(stack[n].calls) : stack[n].calls[c].node \in ScopeNodes(stack[n].def)
       /\ n < Len(stack) =>
            /\ stack[n].pc = "defs" /\ stack[n].calls = <<>>
            /\ stack[n + 1].def \in TreeFunctions(stack[n].def)
            /\ Node(stack[n + 1].def).fid = stack[n].localFunctionIds[stack[n].li]
  /\ \A s \in DOMAIN returned :
       LET localDefs == returned[s].def.localDefs
           fids == {localDefs[i].fid : i \in 1..Len(localDefs)}
       IN /\ Len(localDefs) = Cardinality(TreeFunctions(s))
          /\ fids = {Node(p).fid : p \in TreeFunctions(s)}
          /\ \A p \in NodesOfKind(s, {"nfdef"}) : Node(p).fid \notin fids

\* a compile has returned a definition with one local definition, f, and two
\* applications that name f, one as its function argument and one as its target
C18_Witness ==
  /\ outcome.status = "ok"
  /\ Len(outcome.def.localDefs) = 1 /\ outcome.def.localDefs[1].fid = "f"
  /\ \E i, j \in 1..Len(outcome.def.apps) :
       outcome.def.apps[i].fargIds = <<"f">> /\ outcome.def.apps[j].funcId = "f"

\* sid is the id of the first output of the application node that has no name
FirstUnnamed(node, sid) ==
  \E i \in 1..Len(node.outs) :
    /\ node.outs[i].sid = sid /\ ~node.outs[i].named
    /\ \A j \in 1..(i - 1) : node.outs[j].named
AllNamed(node) == \A i \in 1..Len(node.outs) : node.outs[i].named
\* ids are the ids recorded, in order, for the first operands of the node
RecordedForOperands(node, ids) ==
  \A k \in 1..Len(ids) :
    Operands(node)[k].kind = "app" => FirstUnnamed(Operands(node)[k], ids[k])
\* the operand a call is waiting for the id of is an application without an unnamed output
AwaitsUnnamed(call) ==
  /\ call.at \in {"sarg", "elem", "expr"}
  /\ Operands(Node(call.node))[call.k + 1].kind = "app"
  /\ AllNamed(Operands(Node(call.node))[call.k + 1])

\* C19: every id recorded for an application used as stream argument, array
\* element, expression of an indirection or of a yield, in the calls under way
\* and in the Compiled Definitions returned, is the id of the first output of
\* that application that has no name; and when the application has no output
\* without a name, no id is recorded and the compile ends with an Error.
C19_ReturnedIdOfApplication ==
  /\ \A n \in 1..Len(stack) :
       LET a == stack[n]
           body == Node(a.def).body
       IN /\ \A c \in 1..Len(a.calls) :
               RecordedForOperands(Node(a.calls[c].node), a.calls[c].streamArgIds)
          /\ \A idx \in DOMAIN a.yieldIds :
               \E i \in 1..(a.bi - 1) :
                 /\ body[i].kind = "yield" /\ body[i].idx = idx
                 /\ RecordedForOperands(body[i], <<a.yieldIds[idx]>>)
          /\ \A i \in 1..(a.bi - 1) :
               (body[i].kind = "yield" /\ body[i].expr.kind = "app") => ~AllNamed(body[i].expr)
  /\ (Done /\ stack # <<>> /\ Top.pc = "body") =>
       /\ (Top.calls # <<>> /\ AwaitsUnnamed(TopCall)) => outcome.status = "Error"
       /\ (Top.calls = <<>> /\ Top.inEntry) =>
            /\ outcome.status = "Error"
            /\ Node(Top.def).body[Top.bi].expr.kind = "app"
            /\ AllNamed(Node(Top.def).body[Top.bi].expr)
  /\ \A s \in DOMAIN returned :
       LET def == returned[s].def IN
       /\ \A i \in 1..Len(def.apps) : \A p \in Emitters(s, def.apps[i]) :
            /\ Len(def.apps[i].sargIds) = Len(Operands(Node(p)))
            /\ RecordedForOperands(Node(p), def.apps[i].sargIds)
       /\ \A q \in NodesOfKind(s, {"yield"}) :
            /\ Node(q).expr.kind = "app" => ~AllNamed(Node(q).expr)
            /\ q \in SoleYields(s) =>
                 /\ Node(q).idx \in DOMAIN def.yieldIds
                 /\ RecordedForOperands(Node(q), <<def.yieldIds[Node(q).idx]>>)

\* a compile has returned a definition with a spec that takes z, the second
\* output of the application given as its operand, the first output being named
C19_Witness ==
  /\ outcome.status = "ok"
  /\ \E i \in 1..Len(outcome.def.apps) : \E p \in Emitters(<<>>, outcome.def.apps[i]) :
       /\ outcome.def.apps[i].sargIds = <<"z">>
       /\ Operands(Node(p))[1].kind = "app"
       /\ Operands(Node(p))[1].outs[1].named

\* the specs of the list that are applications of Array_of defining the id of the array at p
ArraySpecsOf(apps, p) ==
  {i \in 1..Len(apps) :
     apps[i].funcId = "Array_of" /\ apps[i].appId = StreamIdAsApplicationId(Node(p).sid)}
\* the spec an array literal is to give
Desugared(p) ==
  [sids |-> <<Node(p).sid>>,
   appId |-> StreamIdAsApplicationId(Node(p).sid),
   funcId |-> "Array_of",
   sargIds |-> [k \in 1..Len(Node(p).elems) |-> streamExprReturnedId(Node(p).elems[k]).sid],
   fargIds |-> <<>>]
\* the specs of the list emitted for the nodes below p, and those that define an id in ids
SpecsBelow(s, apps, p) ==
  {j \in 1..Len(apps) : \E q \in Emitters(s, apps[j]) : q # p /\ IsPrefix(p, q)}
SpecsDefining(apps, ids) == {j \in 1..Len(apps) : Range(apps[j].sids) \cap ids # {}}
\* the array literal at p has an element that is a reference to the array's own id
SelfReferring(p) ==
  \E k \in 1..Len(Node(p).elems) :
    Node(p).elems[k].kind = "sref" /\ Node(p).elems[k].ref = Node(p).sid
\* the call is on an array literal and waits for an element that refers to the array
AtOwnElement(call) ==
  /\ Node(call.node).kind = "arr" /\ call.at = "elem"
  /\ Node(call.node).elems[call.k + 1].kind = "sref"
  /\ Node(call.node).elems[call.k + 1].ref = Node(call.node).sid

\* C20: in the apps of a call under way an array literal has one spec once it
\* is permanently marked and none before; in a returned Compiled Definition
\* every array literal of the scope has exactly one spec, an application of
\* Array_of with the array's id as its one output, the returned ids of the
\* elements in order as stream arguments and no function argument, and it
\* comes after every spec emitted for a node below the array and after every
\* spec that defines the id of an element; a scope with an array literal that
\* has a reference to its own id as element returns no Compiled Definition,
\* the compile that reaches that element ends with the CompilationError
\* 'graph cycle', and so does every compile of a tree with such an array and
\* no other fault.
C20_ArrayLiteralDesugaring ==
  /\ \A n \in 1..Len(stack) : \A p \in NodesOfKind(stack[n].def, {"arr"}) :
       stack[n].pc = "body" =>
         Cardinality(ArraySpecsOf(stack[n].apps, p))
           = IF p \in stack[n].permanentMarked THEN 1 ELSE 0
  /\ \A s \in DOMAIN returned : \A p \in NodesOfKind(s, {"arr"}) :
       LET apps == returned[s].def.apps IN
       /\ Cardinality(ArraySpecsOf(apps, p)) = 1
       /\ \A i \in ArraySpecsOf(apps, p) :
            /\ apps[i] = Desugared(p)
            /\ \A j \in SpecsBelow(s, apps, p) \cup SpecsDefining(apps, Range(apps[i].sargIds)) :
                 j < i
       /\ ~SelfReferring(p)
  /\ (Done /\ stack # <<>> /\ \E c \in 1..Len(Top.calls) : AtOwnElement(Top.calls[c])) =>
       outcome = Thrown("CompilationError", "graph cycle")
  /\ (Done /\ NoInvariantViolation /\ Resolvable
         /\ \E s \in Scopes : \E p \in NodesOfKind(s, {"arr"}) : SelfReferring(p)) =>
       outcome = Thrown("CompilationError", "graph cycle")

\* the array literal y of z and x is the first entry of the body and the
\* application that defines z the second: the compile has returned the spec of
\* the application, then the spec of the array
C20_Witness ==
  /\ outcome.status = "ok"
  /\ Len(outcome.def.apps) = 2
  /\ Len(definition.body) = 2 /\ definition.body[1].kind = "arr"
  /\ outcome.def.apps[1].sids = <<"z">>
  /\ outcome.def.apps[2] = Desugared(<<1>>)
  /\ outcome.def.apps[2].sargIds = <<"z", "x">>

\* the specs of the list that are applications of id defining the id of the indirection at p
IndirectionSpecsOf(apps, p) ==
  {i \in 1..Len(apps) :
     apps[i].funcId = "id" /\ apps[i].appId = StreamIdAsApplicationId(Node(p).sid)}
\* the spec an indirection is to give
Indirected(p) ==
  [sids |-> <<Node(p).sid>>,
   appId |-> StreamIdAsApplicationId(Node(p).sid),
   funcId |-> "id",
   sargIds |-> <<streamExprReturnedId(Node(p).expr).sid>>,
   fargIds |-> <<>>]
\* a reference to the id of the indirection at p is, or is below, its expression
WrapsItself(s, p) ==
  \E q \in NodesOfKind(s, {"sref"}) : q # p /\ IsPrefix(p, q) /\ Node(q).ref = Node(p).sid
\* the innermost call is on an indirection whose expression is being traversed
Reentered(a) ==
  /\ a.calls # <<>>
  /\ Node(a.calls[Len(a.calls)].node).kind = "ind"
  /\ \E c \in 1..(Len(a.calls) - 1) :
       a.calls[c].node = a.calls[Len(a.calls)].node /\ a.calls[c].at = "expr"

\* C21: in the apps of a call under way an indirection has one spec once it is
\* permanently marked and none before; in a returned Compiled Definition every
\* indirection of the scope has exactly one spec, an application of id with the
\* node's id as its one output, the returned id of the wrapped expression as its
\* one stream argument and no function argument, and it comes after every spec
\* emitted for a node below the indirection and after the spec that defines the
\* id of the wrapped expression; a scope with an indirection that wraps a
\* reference to its own id returns no Compiled Definition, a compile that comes
\* back to the indirection while traversing its expression ends with the
\* CompilationError 'graph cycle', and so does every compile of a tree with
\* such an indirection and no other fault.
C21_StreamIndirectionDesugaring ==
  /\ \A n \in 1..Len(stack) : \A p \in NodesOfKind(stack[n].def, {"ind"}) :
       stack[n].pc = "body" =>
         Cardinality(IndirectionSpecsOf(stack[n].apps, p))
           = IF p \in stack[n].permanentMarked THEN 1 ELSE 0
  /\ \A s \in DOMAIN returned : \A p \in NodesOfKind(s, {"ind"}) :
       LET apps == returned[s].def.apps IN
       /\ Cardinality(IndirectionSpecsOf(apps, p)) = 1
       /\ \A i \in IndirectionSpecsOf(apps, p) :
            /\ apps[i] = Indirected(p)
            /\ \A j \in SpecsBelow(s, apps, p) \cup SpecsDefining(apps, Range(apps[i].sargIds)) :
                 j < i
       /\ ~WrapsItself(s, p)
  /\ (Done /\ stack # <<>> /\ Reentered(Top)) =>
       outcome = Thrown("CompilationError", "graph cycle")
  /\ (Done /\ NoInvariantViolation /\ Resolvable
         /\ \E s \in Scopes : \E p \in NodesOfKind(s, {"ind"}) : WrapsItself(s, p)) =>
       outcome = Thrown("CompilationError", "graph cycle")

\* the one entry of the body is the indirection y of the application that
\* defines z: the compile has returned the spec of the application, then the
\* spec of the indirection, whose argument is z
C21_Witness ==
  /\ outcome.status = "ok"
  /\ Len(outcome.def.apps) = 2
  /\ Len(definition.body) = 1 /\ definition.body[1].kind = "ind"
  /\ outcome.def.apps[1].sids = <<"z">>
  /\ outcome.def.apps[2] = Indirected(<<1>>)
  /\ outcome.def.apps[2].sargIds = <<"z">>

\* the entries among the first n of a body that are yields with the index idx
YieldsAt(body, n, idx) == {i \in 1..n : body[i].kind = "yield" /\ body[i].idx = idx}
\* the last of them
LastYieldAt(body, n, idx) ==
  CHOOSE i \in YieldsAt(body, n, idx) : \A j \in YieldsAt(body, n, idx) : j <= i
\* yieldIds is what the first n entries of the body leave: an index for each
\* index yielded, with the returned id of the last yield of that index
YieldsOf(body, n, yieldIds) ==
  /\ DOMAIN yieldIds = {body[i].idx : i \in {j \in 1..n : body[j].kind = "yield"}}
  /\ \A idx \in DOMAIN yieldIds :
       yieldIds[idx] = streamExprReturnedId(body[LastYieldAt(body, n, idx)].expr).sid
\* the stream expression nodes of the scope s at or below its body entry i
EntryNodes(s, i) ==
  {p \in ScopeNodes(s) : IsPrefix(Append(s, i), p) /\ isStreamExpressionNode(Node(p))}
\* the node at p has had its spec emitted into the lists
Emitted(s, p, constStreams, apps) ==
  CASE Node(p).kind \in {"und", "num"} ->
         \E i \in 1..Len(constStreams) : constStreams[i].sid = Node(p).sid
    [] Node(p).kind \in {"app", "arr", "ind"} ->
         \E i \in 1..Len(apps) : p \in Emitters(s, apps[i])
    [] OTHER -> TRUE

\* C22 as stated: in a returned Compiled Definition yieldIds has, for every
\* yield entry of the body, the returned id of that entry's expression at the
\* entry's index.
C22_EveryYieldRecorded ==
  \A s \in DOMAIN returned : \A i \in 1..Len(Node(s).body) :
    Node(s).body[i].kind = "yield" =>
      /\ Node(s).body[i].idx \in DOMAIN returned[s].def.yieldIds
      /\ returned[s].def.yieldIds[Node(s).body[i].idx]
           = streamExprReturnedId(Node(s).body[i].expr).sid

\* C22, amended: the body pass takes the entries in declaration order (the
\* traversal under way is that of entry bi, and every stream expression at or
\* below an earlier entry is permanently marked and emitted); after n entries
\* yieldIds has exactly the indexes the yields among them have, each with the
\* returned id of the last yield of that index; a loose entry leaves yieldIds
\* as it is and has its spec emitted; and so for the whole body in every
\* returned Compiled Definition.
C22_BodyPass ==
  /\ \A n \in 1..Len(stack) :
       LET a == stack[n]
           body == Node(a.def).body
       IN a.pc = "body" =>
            /\ a.bi \in 1..(Len(body) + 1)
            /\ YieldsOf(body, a.bi - 1, a.yieldIds)
            /\ \A i \in 1..(a.bi - 1) : \A p \in EntryNodes(a.def, i) :
                 p \in a.permanentMarked /\ Emitted(a.def, p, a.constStreams, a.apps)
            /\ a.calls # <<>> =>
                 /\ a.inEntry
                 /\ a.calls[1].node
                      = IF body[a.bi].kind = "yield" THEN a.def \o <<a.bi, 1>>
                        ELSE Append(a.def, a.bi)
  /\ \A s \in DOMAIN returned :
       /\ YieldsOf(Node(s).body, Len(Node(s).body), returned[s].def.yieldIds)
       /\ \A i \in 1..Len(Node(s).body) : \A p \in EntryNodes(s, i) :
            Emitted(s, p, returned[s].def.constStreams, returned[s].def.apps)

\* the body is a loose application and then a yield of a reference: the compile
\* has returned the spec of the application and the one yield id
C22_Witness ==
  /\ outcome.status = "ok"
  /\ Len(definition.body) = 2
  /\ definition.body[1].kind = "app" /\ definition.body[2].kind = "yield"
  /\ definition.body[2].expr.kind = "sref"
  /\ Len(outcome.def.apps) = 1
  /\ DOMAIN outcome.def.yieldIds = {definition.body[2].idx}
  /\ outcome.def.yieldIds[definition.body[2].idx] = definition.body[2].expr.ref

\* the root call is at a reference to an id the main definition does not define
AtRootNonLocalReference ==
  /\ Len(stack) = 1 /\ Top.pc = "body" /\ Top.calls # <<>>
  /\ TopCall.at = "call" /\ Node(TopCall.node).kind = "sref"
  /\ Node(TopCall.node).ref \notin DefinedStreams(<<>>)

\* C23: the set of externally referenced stream ids of the root call is empty
\* at every step and when it returns; a reference of the main definition to an
\* id it does not define is never permanently marked, the compile that reaches
\* it ends there with the CompilationError of an unresolved reference; and the
\* compile never ends by the throw that follows the root call.
C23_RootHasNoExternalReference ==
  /\ stack # <<>> =>
       /\ stack[1].def = <<>>
       /\ stack[1].externalReferencedStreamIds = {}
       /\ \A p \in stack[1].permanentMarked :
            Node(p).kind = "sref" => Node(p).ref \in DefinedStreams(<<>>)
       /\ (Done /\ AtRootNonLocalReference) => outcome = Thrown("CompilationError", "")
  /\ <<>> \in DOMAIN returned => returned[<<>>].externalReferencedStreamIds = {}
  /\ (Done /\ stack = <<>>) => outcome.status = "ok"

\* the compile has ended at a reference of the main definition to an id defined
\* nowhere, after a nested definition returned with an external reference
C23_Witness ==
  /\ Done /\ stack # <<>> /\ AtRootNonLocalReference
  /\ \E s \in DOMAIN returned : returned[s].externalReferencedStreamIds # {}

\* the stream ids a Compiled Definition produces, and those it consumes
ConstantIds(def) == {def.constStreams[i].sid : i \in 1..Len(def.constStreams)}
OutputIds(def) == UNION {Range(def.apps[i].sids) : i \in 1..Len(def.apps)}
ConsumedIds(def) ==
  UNION {Range(def.apps[i].sargIds) : i \in 1..Len(def.apps)} \cup Range(def.yieldIds)

\* C24: in every Compiled Definition a call of compileTreeDefinition returns,
\* each stream argument id of an application spec and each yield id is a stream
\* parameter id of the definition, the sid of one of its constants, an output
\* id of one of its application specs, or a member of the set of externally
\* referenced stream ids returned with it; and so in the result of the compile.
C24_InternallyConsistent ==
  /\ \A s \in DOMAIN returned :
       ConsumedIds(returned[s].def) \subseteq
         Range(returned[s].def.streamParamIds) \cup ConstantIds(returned[s].def)
           \cup OutputIds(returned[s].def) \cup returned[s].externalReferencedStreamIds
  /\ outcome.status = "ok" =>
       /\ outcome.def = returned[<<>>].def
       /\ ConsumedIds(outcome.def) \subseteq
            Range(outcome.def.streamParamIds) \cup ConstantIds(outcome.def)
              \cup OutputIds(outcome.def)

\* a compile has returned a definition with an application that takes the
\* parameter x, and within it a nested definition that yields x, an id it
\* does not produce but has in its set of external references
C24_Witness ==
  /\ outcome.status = "ok"
  /\ \E i \in 1..Len(outcome.def.apps) :
       /\ outcome.def.apps[i].sargIds # <<>>
       /\ Range(outcome.def.apps[i].sargIds) \subseteq Range(outcome.def.streamParamIds)
  /\ \E s \in DOMAIN returned :
       /\ s # <<>>
       /\ Range(returned[s].def.yieldIds) # {}
       /\ Range(returned[s].def.yieldIds) \subseteq returned[s].externalReferencedStreamIds

\* C25: in every Compiled Definition a call of compileTreeDefinition returns
\* (the result of the compile among them) no two constants have the same sid,
\* no two application specs have an output id in common, no sid of a constant
\* is an output id of an application spec, and no stream parameter id is the
\* sid of a constant or an output id.
C25_ProducedAtMostOnce ==
  /\ \A s \in DOMAIN returned :
       LET def == returned[s].def IN
       /\ \A i, j \in 1..Len(def.constStreams) :
            def.constStreams[i].sid = def.constStreams[j].sid => i = j
       /\ \A i, j \in 1..Len(def.apps) :
            Range(def.apps[i].sids) \cap Range(def.apps[j].sids) # {} => i = j
       /\ ConstantIds(def) \cap OutputIds(def) = {}
       /\ Range(def.streamParamIds) \cap (ConstantIds(def) \cup OutputIds(def)) = {}
  /\ outcome.status = "ok" => <<>> \in DOMAIN returned /\ returned[<<>>].def = outcome.def

\* a compile has returned a definition with a constant and two application specs
C25_Witness ==
  /\ outcome.status = "ok"
  /\ outcome.def.constStreams # <<>>
  /\ Len(outcome.def.apps) >= 2

\* the nodes of the scope s that the nodes of P wait for, directly or not
RECURSIVE Closure(_, _)
Closure(s, P) ==
  LET Q == P \cup UNION {DependsOn(s, p) : p \in P}
  IN IF Q = P THEN P ELSE Closure(s, Q)
\* no node of a scope waits for itself
Acyclic ==
  \A s \in Scopes : \A p \in ScopeNodes(s) : p \notin Closure(s, DependsOn(s, p))
\* the application at p has a function argument whose body refers to an output of p
RefersBackFromArgument(s, p) ==
  \E q \in TreeFunctions(s) : \E r \in NodesOfKind(q, {"sref"}) :
    IsPrefix(p, q) /\ Node(r).ref \in OutIds(p)
\* the place in apps of the spec of the node at p
SpecIndex(s, apps, p) == CHOOSE k \in 1..Len(apps) : p \in Emitters(s, apps[k])
\* the nodes of the scope s, at or below body entry i, that give a spec
Specified(s, i) == {p \in EntryNodes(s, i) : Node(p).kind \in {"app", "arr", "ind"}}

OwnFunctionParameters(s) == Range(Node(s).fparams)
\* the applications of the scope s whose target is a function parameter of s
\* that neither s nor an enclosing scope binds
AppliesUnboundParameter(s) ==
  {p \in NodesOfKind(s, {"app"}) :
     functionExprId(Node(p).func) \in OwnFunctionParameters(s) \ VisibleFunctions(s)}

\* C27: funcParamIds of a returned Compiled Definition is the list of the
\* definition's function parameters in declaration order; the local frame of
\* the function environment of a call and its local function ids hold only the
\* ids of the function definitions of the scope, never a function parameter as
\* such; a call of traverseStreamExpr on an application whose target is a
\* function parameter bound nowhere throws CompilationError, no returned scope
\* has such an application, and the compile of a tree that has one and breaks
\* no invariant ends with a CompilationError.
C27_FunctionParametersUnbound ==
  /\ \A s \in DOMAIN returned :
       /\ returned[s].def.funcParamIds = Node(s).fparams
       /\ AppliesUnboundParameter(s) = {}
  /\ \A n \in 1..Len(stack) :
       LET a == stack[n] IN
       /\ Range(a.localFunctionIds) \subseteq DefinedFunctions(a.def)
       /\ \A fid \in OwnFunctionParameters(a.def) :
            EnvHasLocal(a.functionEnvironment, fid) => fid \in DefinedFunctions(a.def)
  /\ (Done /\ stack # <<>> /\ Top.pc = "body" /\ Top.calls # <<>>
         /\ TopCall.at = "call" /\ TopCall.node \in AppliesUnboundParameter(Top.def)) =>
       outcome = Thrown("CompilationError", "")
  /\ (Done /\ NoInvariantViolation /\ \E s \in Scopes : AppliesUnboundParameter(s) # {}) =>
       outcome.status = "CompilationError"

\* the compile of a definition with the function parameters nope and add has
\* ended at the application of nope
C27_Witness ==
  /\ Done /\ stack # <<>> /\ Top.pc = "body" /\ Top.calls # <<>>
  /\ definition.fparams = FunctionParameters
  /\ TopCall.node \in AppliesUnboundParameter(Top.def)
  /\ outcome = Thrown("CompilationError", "")

UserFunctions ==
  {nodeFromPath(state.program, <<Field("mainDefinition")>>)}
    \cup {n \in {nodeFromPath(state.program, p) : p \in SelectablePaths(state.program, <<>>)} :
            n.type = "UserFunction"}

\* the selection is on an expression of the body of a user function
OnBodyExpression ==
  /\ Len(state.selectionPath) >= 2
  /\ state.selectionPath[Len(state.selectionPath) - 1] = Field("expressions")
  /\ isNode(nodeFromPath(state.program, state.selectionPath))
\* the path of that user function
BodyPath == slice(state.selectionPath, 0, Len(state.selectionPath) - 2)

\* what a DELETE on an expression of a body leaves, where the reducer returned
\* a new state: the list with at least one expression, the selection on one of
\* its positions, and, if the expression was the only one, a list of one new
\* undefined expression, which is being edited
DeletedFromBody ==
  LET before == nodeFromPath(state.program, BodyPath)
      after == nodeFromPath(state'.program, BodyPath)
      selected == state'.selectionPath[Len(state'.selectionPath)].index
  IN  /\ isNode(after) /\ after.type = "UserFunction"
      /\ Len(after.expressions) >= 1
      /\ state'.selectionPath = BodyPath \o <<Field("expressions"), Index(selected)>>
      /\ selected >= 0 /\ selected < Len(after.expressions)
      /\ Len(before.expressions) = 1 =>
            /\ after.expressions = <<UndefinedExpressionNode(uid, Null)>>
            /\ state'.editingSelected = NodeEditState(UndefinedExpressionNode(uid, Null))
            /\ \A n \in Range(recursiveBuildIdMaps(state.program)) : n.streamId # uid

\* C29: no user function of the tree has an empty list of expressions, and a
\* DELETE on an expression of a body leaves the selection on a position of the
\* new list; deleting the only expression leaves one new undefined expression,
\* open for editing.
C29_ExpressionsNeverEmpty ==
  /\ [](\A f \in UserFunctions : Len(f.expressions) >= 1)
  /\ [][(OnBodyExpression /\ DELETE /\ state' # state) => DeletedFromBody]_vars

\* the only expression of a body was deleted: the new undefined one is there
C29_Witness ==
  /\ OnBodyExpression
  /\ state.editingSelected # Null
  /\ LET f == nodeFromPath(state.program, BodyPath)
     IN  /\ Len(f.expressions) = 1
         /\ f.expressions[1].type = "UndefinedExpression"
         /\ f.expressions[1].streamId >= FirstUid

\* the stream ids the tree of the state defines: of its expressions, of its
\* parameters
DefinedStreamIds == {n.streamId : n \in Range(recursiveBuildIdMaps(state.program))}

\* C30: in the state the reducer returned, every stream reference of the program
\* targets a stream id that an expression or a parameter of the program has,
\* and derivedLookups.streamIdToNode is the lookup of that program.
C30_NoDanglingReference ==
  /\ \A n \in Range(recursiveBuildIdMaps(state.program)) :
       n.type = "StreamReference" => n.targetStreamId \in DefinedStreamIds
  /\ state.derivedLookups.streamIdToNode = addStateIdLookups(state.program)
====
